---- MODULE Spec2Model ----
(***************************************************************************)
(* A model of the query-handling state machine of the telecom billing      *)
(* multi-agent system: run_query (app/graph.py) drives the compiled        *)
(* workflow Router -> {Sales, Billing} -> Manager -> Formatter over one    *)
(* shared GraphState record, with the session store it reads and writes,   *)
(* the Billing agent's retrieval + generation step and the deterministic   *)
(* guardrail validator.                                                    *)
(*                                                                         *)
(* Representation.  A Python str is a sequence of tokens (TLA+ strings);   *)
(* "" is <<>>, concatenation is \o and truthiness is "non-empty".  A dict  *)
(* is a function over the set of its keys (EmptyDict is {}), so a missing  *)
(* key is a key outside DOMAIN.  An Optional value is a sequence of        *)
(* length 0 (None) or 1.  Similarity scores are integers in hundredths     *)
(* (0.40 is 40).  The completion, embedding and index services are         *)
(* oracles: each call returns any value of a small set, or raises.         *)
(***************************************************************************)
EXTENDS Integers, Sequences, FiniteSets, TLC

VARIABLES pc, query, session_id, state, sessions, turns, result, path, chunks, needs_routing, vin, vout,
          completions,
          history_log, last_call, conn, wlock, observed, committed_updates

wfvars == <<pc, query, session_id, state, sessions, turns, result, path, chunks, completions, needs_routing>>
valvars == <<vin, vout>>
storevars == <<history_log, last_call>>
txnvars == <<conn, wlock, observed, committed_updates>>
harness == <<valvars, storevars, txnvars>>
vars == <<wfvars, harness>>

(***************************************************************************)
(* Program constants and model bounds                                      *)
(***************************************************************************)
\* config.py: CONFIDENCE_THRESHOLD = 0.40, in hundredths
CONFIDENCE_THRESHOLD == 40
\* config.py: MAX_QUOTE_WORDS = 20 (the retriever hardcodes the same 20)
MAX_QUOTE_WORDS == 20
\* config.py: RETRIEVAL_TOP_K = 4
RETRIEVAL_TOP_K == 4
\* config.py: STRICT_AMOUNT_VERIFICATION = False
STRICT_AMOUNT_VERIFICATION == FALSE
\* billing.py: citations[:3] in the fallback response
FALLBACK_CITATIONS == 3
\* session_store.py: LIMIT 10 in the trim and in the history load
MAX_HISTORY == 10
\* graph.py: final_response[:500] stored as last_response (500 characters; a
\* response of the model is far shorter, the slice is kept for its shape)
LAST_RESPONSE_CHARS == 500
\* graph.py: quote[:60] in the source list, counted in tokens
QUOTE_SLICE == 60

\* the longest citation list a completion or a validator input carries
MaxCitations == 2
\* the turns a session already holds when a run starts
MaxInitTurns == 1
\* the turns a caller of the store inserts into the first session, and into the other one
MaxTurnsAdded == 12
MaxOtherTurns == 1
\* the calls each concurrent caller of the store makes
MaxCalls == 2
\* tokens of a classification label
MaxLabelLen == 2
\* words of a message given to topic detection
MaxTopicWords == 2

(***************************************************************************)
(* Python built-ins                                                        *)
(***************************************************************************)
EmptyDict == [k \in {} |-> 0]

\* dict.get(k, default)
Get(d, k, default) == IF k \in DOMAIN d THEN d[k] ELSE default

\* s[:n]
Take(s, n) == SubSeq(s, 1, IF Len(s) < n THEN Len(s) ELSE n)

\* s[-n:]
LastN(s, n) == IF Len(s) <= n THEN s ELSE SubSeq(s, Len(s) - n + 1, Len(s))

\* sep.join(parts), parts a sequence of strings
RECURSIVE Join(_, _)
Join(parts, sep) ==
    IF parts = <<>> THEN <<>>
    ELSE IF Len(parts) = 1 THEN parts[1]
    ELSE parts[1] \o sep \o Join(Tail(parts), sep)

\* [f(x) for x in s] for the element-wise uses below
Range(s) == {s[i] : i \in DOMAIN s}

\* needle in haystack, for strings (a contiguous run of tokens)
Contains(haystack, needle) ==
    \E i \in 0..(Len(haystack) - Len(needle)) : SubSeq(haystack, i + 1, i + Len(needle)) = needle

\* list(a_set): Python leaves the order of a set's elements unspecified; the
\* model fixes one arbitrary order and nothing below depends on which
RECURSIVE ListOf(_)
ListOf(S) ==
    IF S = {} THEN <<>>
    ELSE LET x == CHOOSE y \in S : TRUE IN <<x>> \o ListOf(S \ {x})

None == <<>>
Some(v) == <<v>>

NL == <<"\n">>

(***************************************************************************)
(* The universe of texts: queries, classifier labels, drafts, chunks       *)
(***************************************************************************)
Q_PLANS == <<"what", "plans", "do", "you", "offer">>
Q_OWE == <<"how", "much", "do", "i", "owe">>
Q_ACCT == <<"my", "account", "is", "ACC-DEMO-001", "show", "my", "January", "bill">>
Queries == {Q_PLANS, Q_OWE, Q_ACCT}

SessionIds == {"s1"}

\* str.lower() and str.upper() on the tokens of the universe
Lower(tok) ==
    CASE tok = "ACC-DEMO-001" -> "acc-demo-001"
      [] tok = "ACC-789456123" -> "acc-789456123"
      [] tok = "January" -> "january"
      [] tok = "BILLING_GENERAL" -> "billing_general"
      [] tok = "Billing_Account_Specific" -> "billing_account_specific"
      [] OTHER -> tok

Upper(tok) ==
    CASE tok = "is" -> "IS"
      [] tok = "number" -> "NUMBER"
      [] tok = "show" -> "SHOW"
      [] tok = "acc-demo-001" -> "ACC-DEMO-001"
      [] tok = "acc-789456123" -> "ACC-789456123"
      [] OTHER -> tok

\* str.title() on the tokens of the universe
Title(tok) ==
    CASE tok = "january" -> "January"
      [] OTHER -> tok

LowerText(text) == [i \in DOMAIN text |-> Lower(text[i])]

(***************************************************************************)
(* memory/session_store.py                                                 *)
(***************************************************************************)
\* SessionData(session_id=...): every entity None, history empty
NewSessionData(sid) ==
    [session_id |-> sid, account_id |-> None, customer_name |-> None,
     billing_period |-> None, current_topic |-> None, last_query |-> None,
     last_response |-> None, last_doc_ids |-> <<>>, conversation_history |-> <<>>]

\* a row of the sessions table (no history column)
NewRow(sid) ==
    [session_id |-> sid, account_id |-> None, customer_name |-> None,
     billing_period |-> None, current_topic |-> None, last_query |-> None,
     last_response |-> None, last_doc_ids |-> <<>>]

\* SELECT ... FROM conversation_turns WHERE session_id = ? ORDER BY id
TurnsOf(tt, sid) == SelectSeq(tt, LAMBDA t : t.session_id = sid)

\* _row_to_session: the row plus its last 10 turns, oldest first
row_to_session(row, tt) ==
    [k \in DOMAIN row \cup {"conversation_history"} |->
        IF k = "conversation_history"
        THEN LET h == LastN(TurnsOf(tt, row.session_id), MAX_HISTORY)
             IN [i \in DOMAIN h |-> [role |-> h[i].role, content |-> h[i].content]]
        ELSE row[k]]

\* SessionStore.get: the session, or None
store_get(ss, tt, sid) ==
    IF sid \in DOMAIN ss THEN Some(row_to_session(ss[sid], tt)) ELSE None

\* SessionStore.create: INSERT INTO sessions (the id is new when get_or_create calls it)
store_create(ss, sid) == [k \in DOMAIN ss \cup {sid} |-> IF k = sid THEN NewRow(sid) ELSE ss[k]]

\* variant of get_or_create that creates without looking
store_get_or_create_always_creates(ss, tt, sid) ==
    [sessions |-> store_create(ss, sid), session |-> NewSessionData(sid)]

\* SessionStore.get_or_create: [sessions', returned session]
store_get_or_create(ss, tt, sid) ==
    IF store_get(ss, tt, sid) = None
    THEN [sessions |-> store_create(ss, sid), session |-> NewSessionData(sid)]
    ELSE [sessions |-> ss, session |-> store_get(ss, tt, sid)[1]]

AllowedFields == {"account_id", "customer_name", "billing_period", "current_topic", "last_query", "last_response", "last_doc_ids"}

\* variant of update that inserts the row when the session is unknown
store_update_or_insert(ss, sid, kwargs) ==
    LET updates == DOMAIN kwargs \cap AllowedFields
        base == IF sid \in DOMAIN ss THEN ss ELSE store_create(ss, sid)
    IN IF updates = {} THEN ss
       ELSE [base EXCEPT ![sid] = [k \in DOMAIN @ |-> IF k \in updates THEN kwargs[k] ELSE @[k]]]

\* variant of update that writes the whole row: fields not named are reset
store_update_resets_others(ss, sid, kwargs) ==
    LET updates == DOMAIN kwargs \cap AllowedFields
    IN IF updates = {} \/ sid \notin DOMAIN ss THEN ss
       ELSE [ss EXCEPT ![sid] = [k \in DOMAIN @ |-> IF k \in updates THEN kwargs[k] ELSE NewRow(sid)[k]]]

\* SessionStore.update: UPDATE sessions SET <the allowed fields of kwargs> WHERE session_id = ?
store_update(ss, sid, kwargs) ==
    LET updates == DOMAIN kwargs \cap AllowedFields
    IN IF updates = {} \/ sid \notin DOMAIN ss THEN ss
       ELSE [ss EXCEPT ![sid] = [k \in DOMAIN @ |-> IF k \in updates THEN kwargs[k] ELSE @[k]]]

\* the table without the k oldest (lowest id) turns of sid
RECURSIVE DropOldest(_, _, _)
DropOldest(tt, sid, k) ==
    IF k = 0 \/ tt = <<>> THEN tt
    ELSE IF Head(tt).session_id = sid THEN DropOldest(Tail(tt), sid, k - 1)
    ELSE <<Head(tt)>> \o DropOldest(Tail(tt), sid, k)

\* variant of the trim that evicts the newest turn instead of the oldest
TrimTurns_evicts_newest(tt, sid) ==
    IF Len(TurnsOf(tt, sid)) > MAX_HISTORY THEN SubSeq(tt, 1, Len(tt) - 1) ELSE tt

\* the trim of add_conversation_turn: DELETE the turns of sid that are not among its last 10
TrimTurns(tt, sid) ==
    LET n == Len(TurnsOf(tt, sid))
    IN IF n > MAX_HISTORY THEN DropOldest(tt, sid, n - MAX_HISTORY) ELSE tt

\* SessionStore.add_conversation_turn: nothing when the session is unknown,
\* else INSERT the turn and trim, in one transaction
store_add_conversation_turn(ss, tt, sid, role, content) ==
    IF sid \notin DOMAIN ss THEN tt
    ELSE TrimTurns(Append(tt, [session_id |-> sid, role |-> role, content |-> content]), sid)

\* SessionStore.add_conversation_turn: the value returned (None for an unknown
\* session, else get() after the commit)
store_add_conversation_turn_result(ss, tt, sid, role, content) ==
    IF sid \notin DOMAIN ss THEN None
    ELSE store_get(ss, store_add_conversation_turn(ss, tt, sid, role, content), sid)

\* SessionStore.update: the value returned (get() when no allowed field is
\* passed, None when the UPDATE touched no row, else get() after the commit)
store_update_result(ss, tt, sid, kwargs) ==
    IF DOMAIN kwargs \cap AllowedFields = {} THEN store_get(ss, tt, sid)
    ELSE IF sid \notin DOMAIN ss THEN None
    ELSE store_get(store_update(ss, sid, kwargs), tt, sid)

\* variant of delete that empties the whole turns table
store_delete_all_turns(ss, tt, sid) ==
    [sessions |-> [k \in DOMAIN ss \ {sid} |-> ss[k]], turns |-> <<>>, deleted |-> sid \in DOMAIN ss]

\* SessionStore.delete: DELETE the turns of sid, DELETE its row; returns
\* whether a row was deleted
store_delete(ss, tt, sid) ==
    [sessions |-> [k \in DOMAIN ss \ {sid} |-> ss[k]],
     turns |-> SelectSeq(tt, LAMBDA t : t.session_id # sid),
     deleted |-> sid \in DOMAIN ss]

\* SessionData.get_context_summary
get_context_summary(session) ==
    LET parts ==
            (IF session.account_id # None THEN <<<<"Account: ", session.account_id[1]>>>> ELSE <<>>)
            \o (IF session.customer_name # None THEN <<<<"Customer: ", session.customer_name[1]>>>> ELSE <<>>)
            \o (IF session.billing_period # None THEN <<<<"Discussing: ">> \o session.billing_period[1]>> ELSE <<>>)
            \o (IF session.current_topic # None THEN <<<<"Topic: ", session.current_topic[1]>>>> ELSE <<>>)
    IN IF parts # <<>> THEN <<"Session Context: ">> \o Join(parts, <<" | ">>) ELSE <<>>

(***************************************************************************)
(* memory/entity_extractor.py: the patterns, read token by token           *)
(* (every pattern is compiled with re.IGNORECASE)                          *)
(***************************************************************************)
\* the least index of text that satisfies P, or 0
FirstIndex(text, P(_)) ==
    IF \E i \in DOMAIN text : P(i) THEN CHOOSE i \in DOMAIN text : P(i) /\ \A j \in 1..(i - 1) : ~P(j) ELSE 0

\* tokens of the universe that match ACC-[A-Z0-9]+-[A-Z0-9]+ and ACC-\d{9,12}
IsAccTwoPart(tok) == Lower(tok) \in {"acc-demo-001"}
IsAccDigits(tok) == Lower(tok) \in {"acc-789456123"}
\* tokens that are one run of [A-Z0-9-] (with IGNORECASE: any word of the universe)
IsIdRun(tok) == tok \notin {"$137.14", "$50", "$49.99"}

MonthNames == {"january", "february", "march", "april", "may", "june", "july", "august", "september", "october", "november", "december"}
IsYear(tok) == tok \in {"2025", "2026"}

\* _extract_account_id: the first pattern that matches anywhere wins
extract_account_id(text) ==
    LET p1 == FirstIndex(text, LAMBDA i : IsAccTwoPart(text[i]))
        p2 == FirstIndex(text, LAMBDA i : IsAccDigits(text[i]))
        \* account\s*(?:number|#|id)?:?\s*([A-Z0-9-]+): the word after "account", or
        \* the one after "account number" / "account id" when there is one
        p3 == FirstIndex(text, LAMBDA i : Lower(text[i]) = "account" /\ i < Len(text) /\ IsIdRun(text[i + 1]))
        cap3 == IF Lower(text[p3 + 1]) \in {"number", "id"} /\ p3 + 2 <= Len(text) /\ IsIdRun(text[p3 + 2])
                THEN text[p3 + 2] ELSE text[p3 + 1]
        \* account\s+is\s+([A-Z0-9-]+)
        p4 == FirstIndex(text, LAMBDA i : Lower(text[i]) = "account" /\ i + 2 <= Len(text) /\ Lower(text[i + 1]) = "is" /\ IsIdRun(text[i + 2]))
    IN IF p1 # 0 THEN Some(Upper(text[p1]))
       ELSE IF p2 # 0 THEN Some(Upper(text[p2]))
       ELSE IF p3 # 0 THEN Some(Upper(cap3))
       ELSE IF p4 # 0 THEN Some(Upper(text[p4 + 2]))
       ELSE None

\* _extract_name: (I'm|I am|my name is|this is) X, or X here at the start
extract_name(text) ==
    LET low == LowerText(text)
        after(i) ==
            IF low[i] = "i'm" THEN i + 1
            ELSE IF low[i] = "i" /\ i < Len(text) /\ low[i + 1] = "am" THEN i + 2
            ELSE IF low[i] = "my" /\ i + 2 <= Len(text) /\ low[i + 1] = "name" /\ low[i + 2] = "is" THEN i + 3
            ELSE IF low[i] = "this" /\ i < Len(text) /\ low[i + 1] = "is" THEN i + 2
            ELSE 0
        p1 == FirstIndex(text, LAMBDA i : after(i) # 0 /\ after(i) <= Len(text) /\ IsIdRun(text[after(i)]))
    IN IF p1 # 0 THEN Some(Title(low[after(p1)]))
       ELSE IF Len(text) >= 2 /\ low[2] = "here" /\ IsIdRun(text[1]) THEN Some(Title(low[1]))
       ELSE None

\* _extract_billing_period: "<Month> <year>", "<Month> bill", "this month" ...
extract_billing_period(text) ==
    LET low == LowerText(text)
        p1 == FirstIndex(text, LAMBDA i : low[i] \in MonthNames /\ i < Len(text) /\ IsYear(text[i + 1]))
        p2 == FirstIndex(text, LAMBDA i : low[i] \in MonthNames /\ i < Len(text) /\ low[i + 1] = "bill")
        p3 == FirstIndex(text, LAMBDA i : low[i] \in {"this", "last", "current", "previous"} /\ i < Len(text) /\ low[i + 1] = "month")
    IN IF p1 # 0 THEN Some(<<text[p1], text[p1 + 1]>>)
       ELSE IF p2 # 0 THEN Some(<<text[p2], text[p2 + 1]>>)
       ELSE IF p3 # 0 THEN Some(<<text[p3], text[p3 + 1]>>)
       ELSE None

\* TOPIC_KEYWORDS, in definition order
TopicOrder == <<"billing", "plans", "dispute", "late_fee", "support">>
TOPIC_KEYWORDS ==
    [billing |-> {"bill", "invoice", "charge", "payment", "amount", "due", "balance"},
     plans |-> {"plan", "upgrade", "downgrade", "package", "subscription"},
     dispute |-> {"dispute", "wrong", "incorrect", "error", "overcharge", "refund"},
     late_fee |-> {"late", "fee", "penalty", "overdue"},
     support |-> {"help", "support", "issue", "problem", "question"}]

\* kw in text_lower: the keywords that occur inside a (lower-cased) token
KeywordsInside(tok) ==
    CASE tok = "plans" -> {"plan"}
      [] tok = "bill" -> {"bill"}
      [] tok = "billing" -> {"bill"}
      [] tok = "late" -> {"late"}
      [] tok = "fee" -> {"fee"}
      [] tok = "overdue" -> {"overdue", "due"}
      [] tok = "refund" -> {"refund"}
      [] tok = "help" -> {"help"}
      [] OTHER -> {}

\* variant of _extract_topic that returns the last topic, in definition
\* order, with the highest positive score
extract_topic_last_on_tie(text) ==
    LET low == LowerText(text)
        score(t) == Cardinality({kw \in TOPIC_KEYWORDS[t] : \E i \in DOMAIN low : kw \in KeywordsInside(low[i])})
        best == FirstIndex(TopicOrder, LAMBDA i : score(TopicOrder[i]) > 0
                             /\ (\A j \in DOMAIN TopicOrder : score(TopicOrder[j]) <= score(TopicOrder[i]))
                             /\ (\A k \in (i + 1)..Len(TopicOrder) : score(TopicOrder[k]) < score(TopicOrder[i])))
    IN IF best # 0 THEN Some(TopicOrder[best]) ELSE None

\* _extract_topic: the first topic, in definition order, with the highest positive score
extract_topic(text) ==
    LET low == LowerText(text)
        score(t) == Cardinality({kw \in TOPIC_KEYWORDS[t] : \E i \in DOMAIN low : kw \in KeywordsInside(low[i])})
        best == FirstIndex(TopicOrder, LAMBDA i : score(TopicOrder[i]) > 0 /\ \A j \in DOMAIN TopicOrder : score(TopicOrder[j]) <= score(TopicOrder[i]))
    IN IF best # 0 THEN Some(TopicOrder[best]) ELSE None

\* EntityExtractor.extract (the dollar amounts are not stored in the session)
extract(text) ==
    [account_id |-> extract_account_id(text), customer_name |-> extract_name(text),
     billing_period |-> extract_billing_period(text), topic |-> extract_topic(text)]

\* variant of the updates dict that carries every entity, found or not
entity_updates_with_absent(text) ==
    [k \in {"account_id", "customer_name", "billing_period", "current_topic"} |->
        IF k = "current_topic" THEN extract(text).topic ELSE extract(text)[k]]

\* extract_and_update_session: the kwargs passed to SessionStore.update,
\* only the entities that were found
entity_updates(text) ==
    LET e == extract(text)
        keys == {k \in {"account_id", "customer_name", "billing_period", "current_topic"} :
                    (IF k = "current_topic" THEN e.topic ELSE e[k]) # None}
    IN [k \in keys |-> IF k = "current_topic" THEN e.topic ELSE e[k]]

\* extract_and_update_session, from the updates dict on: "if updates: session_store.update(...)"
update_if_any(ss, sid, updates) ==
    IF DOMAIN updates # {} THEN store_update(ss, sid, updates) ELSE ss

\* extract_and_update_session: sessions'
extract_and_update_session(ss, text, sid) == update_if_any(ss, sid, entity_updates(text))

(***************************************************************************)
(* rag/retriever.py                                                        *)
(***************************************************************************)
\* a chunk text longer than the quote limit; its last word is a currency literal
LongText == [i \in 1..(MAX_QUOTE_WORDS + 1) |-> IF i = MAX_QUOTE_WORDS + 1 THEN "$49.99" ELSE "plan"]

\* the documents of the index, as the metadata the index stores with each vector
IndexChunks ==
    <<[doc_id |-> "DOC_4_INVOICE", chunk_id |-> 0, text |-> <<"Total", "due", "$137.14">>],
      [doc_id |-> "DOC_4_INVOICE", chunk_id |-> 1, text |-> <<"Late", "fee", "$5">>],
      [doc_id |-> "DOC_1_PLANS", chunk_id |-> 0, text |-> LongText],
      [doc_id |-> "DOC_2_POLICY", chunk_id |-> 0, text |-> <<>>]>>

\* the scores the index reports for the best match: below, at and above the threshold
Scores == {CONFIDENCE_THRESHOLD - 1, CONFIDENCE_THRESHOLD, CONFIDENCE_THRESHOLD + 1}

\* the i-th element, in order, of a set of indices
Nth(S, k) == CHOOSE i \in S : Cardinality({j \in S : j <= i}) = k

\* PineconeStore.query results: at most top_k matches, best first, each with
\* its score and metadata
MatchLists ==
    {[k \in 1..Cardinality(S) |-> [score |-> top - (k - 1), metadata |-> IndexChunks[Nth(S, k)]]] :
        S \in {T \in SUBSET DOMAIN IndexChunks : Cardinality(T) <= RETRIEVAL_TOP_K}, top \in Scores}

\* TelecomRetriever.retrieve: (chunks, top_score)
retrieve(matches) ==
    IF matches = <<>> THEN [chunks |-> <<>>, top_score |-> 0]
    ELSE [chunks |-> [i \in DOMAIN matches |->
                        [doc_id |-> Get(matches[i].metadata, "doc_id", "unknown"),
                         chunk_id |-> Get(matches[i].metadata, "chunk_id", 0),
                         text |-> Get(matches[i].metadata, "text", <<>>),
                         score |-> Get(matches[i], "score", 0)]],
          top_score |-> matches[1].score]

\* TelecomRetriever.create_citations_from_chunks: per chunk, its first 20 words
\* (and "..." when words were cut) as the quote
create_citations_from_chunks(cs) ==
    [i \in DOMAIN cs |->
        [doc_id |-> cs[i].doc_id, chunk_id |-> cs[i].chunk_id,
         quote |-> Take(cs[i].text, MAX_QUOTE_WORDS) \o (IF Len(cs[i].text) > MAX_QUOTE_WORDS THEN <<"...">> ELSE <<>>)]]

(***************************************************************************)
(* utils/guardrails.py                                                     *)
(***************************************************************************)
\* the tokens of the universe that match DOLLAR_PATTERN = \$[\d,]+(?:\.\d{2})?
\* from their first to their last character; in "$50," the comma that follows
\* the amount is in the class [\d,] and so part of the match
IsDollar(tok) == tok \in {"$137.14", "$50", "$49.99", "$5", "$50,"}

\* DOLLAR_PATTERN.findall(text)
FindDollars(text) == SelectSeq(text, IsDollar)

\* GuardrailsChecker.check_sales_agent_response: is_valid
check_sales_agent_response(response, query_intent) ==
    ~(query_intent = "billing_account_specific" /\ FindDollars(response) # <<>>)

\* the dollar amounts of all citation quotes
DollarsInQuotes(citations) ==
    UNION {Range(FindDollars(Get(citations[i], "quote", <<>>))) : i \in DOMAIN citations}

\* variant of manager_validate_response whose confidence rule is strict ( <= ):
\* a score equal to the threshold is rejected
manager_validate_response_rejects_equal(answer, citations, top_score, strict) ==
    IF citations = <<>>
    THEN [is_valid |-> FALSE, reason |-> [text |-> "No citations provided."], details |-> [check |-> "citations_present"]]
    ELSE IF top_score <= CONFIDENCE_THRESHOLD
    THEN [is_valid |-> FALSE, reason |-> [text |-> "Confidence too low", score |-> top_score], details |-> [check |-> "confidence_threshold", score |-> top_score]]
    ELSE [is_valid |-> TRUE, reason |-> [text |-> "Response approved."], details |-> [citations_count |-> Len(citations), confidence_score |-> top_score]]

\* variant of manager_validate_response that tests the confidence rule before
\* the citation rule
manager_validate_response_score_first(answer, citations, top_score, strict) ==
    IF top_score < CONFIDENCE_THRESHOLD
    THEN [is_valid |-> FALSE, reason |-> [text |-> "Confidence too low", score |-> top_score], details |-> [check |-> "confidence_threshold", score |-> top_score]]
    ELSE IF citations = <<>>
    THEN [is_valid |-> FALSE, reason |-> [text |-> "No citations provided."], details |-> [check |-> "citations_present"]]
    ELSE [is_valid |-> TRUE, reason |-> [text |-> "Response approved."], details |-> [citations_count |-> Len(citations), confidence_score |-> top_score]]

\* variant of manager_validate_response without the citation rule: an answer
\* that cites nothing is judged by its score
manager_validate_response_no_citation_rule(answer, citations, top_score, strict) ==
    IF top_score < CONFIDENCE_THRESHOLD
    THEN [is_valid |-> FALSE, reason |-> [text |-> "Confidence too low", score |-> top_score], details |-> [check |-> "confidence_threshold", score |-> top_score]]
    ELSE [is_valid |-> TRUE, reason |-> [text |-> "Response approved."], details |-> [citations_count |-> Len(citations), confidence_score |-> top_score]]

\* GuardrailsChecker.manager_validate_response; strict is the module's
\* STRICT_AMOUNT_VERIFICATION.  Returns the ValidationResult.
manager_validate_response(answer, citations, top_score, strict) ==
    IF citations = <<>>
    THEN [is_valid |-> FALSE,
          reason |-> [text |-> "No citations provided. Cannot verify answer without evidence."],
          details |-> [check |-> "citations_present", needed |-> "At least one citation required"]]
    ELSE IF top_score < CONFIDENCE_THRESHOLD
    THEN [is_valid |-> FALSE,
          reason |-> [text |-> "Confidence too low", score |-> top_score, threshold |-> CONFIDENCE_THRESHOLD],
          details |-> [check |-> "confidence_threshold", score |-> top_score, threshold |-> CONFIDENCE_THRESHOLD,
                       clarifying_questions |->
                          <<<<"Can you provide your account number?">>,
                            <<"Which billing period are you asking about?">>,
                            <<"Can you provide more details about your question?">>>>]]
    ELSE IF strict /\ Range(FindDollars(answer)) \ DollarsInQuotes(citations) # {}
    THEN [is_valid |-> FALSE,
          reason |-> [text |-> "Dollar amounts in answer not found in source documents.",
                      amounts |-> Range(FindDollars(answer)) \ DollarsInQuotes(citations)],
          details |-> [check |-> "amounts_verified",
                       unverified_amounts |-> ListOf(Range(FindDollars(answer)) \ DollarsInQuotes(citations)),
                       verified_amounts |-> ListOf(DollarsInQuotes(citations))]]
    ELSE [is_valid |-> TRUE,
          reason |-> [text |-> "Response approved. Citations present, confidence sufficient."],
          details |-> [citations_count |-> Len(citations), confidence_score |-> top_score,
                       amounts_in_answer |-> ListOf(Range(FindDollars(answer)))]]

(***************************************************************************)
(* agents/manager.py                                                       *)
(***************************************************************************)
\* variant of _generate_clarifying_questions that asks the same two questions
\* whatever the check that failed
generate_clarifying_questions_generic(validation) ==
    <<<<"Can you provide more details about your question?">>,
      <<"What specific information are you looking for?">>>>

\* ManagerAgent._generate_clarifying_questions
generate_clarifying_questions(validation) ==
    LET check_type == Get(validation.details, "check", "")
        questions ==
            IF check_type = "citations_present"
            THEN <<<<"Can you provide your account number or customer ID?">>,
                   <<"What specific billing period are you asking about?">>,
                   <<"Can you provide more details about your question?">>>>
            ELSE IF check_type = "confidence_threshold"
            THEN Get(validation.details, "clarifying_questions",
                     <<<<"Can you be more specific about what you're looking for?">>,
                       <<"Which billing period or invoice are you asking about?">>,
                       <<"Can you provide your account details?">>>>)
            ELSE IF check_type = "amounts_verified"
            THEN <<<<"I found amounts ">> \o Get(validation.details, "unverified_amounts", <<>>) \o <<" in the answer but couldn't verify them.">>,
                   <<"Can you confirm which charges you're asking about?">>,
                   <<"Which specific invoice or bill are you referring to?">>>>
            ELSE <<>>
    IN IF questions = <<>>
       THEN <<<<"Can you provide more details about your question?">>,
              <<"What specific information are you looking for?">>>>
       ELSE questions

\* variant of _create_approved_response that keeps the first citation only
create_approved_response_first_citation(billing_response, validation) ==
    [approved |-> TRUE, reason |-> validation.reason,
     answer |-> Get(billing_response, "answer", <<>>),
     citations |-> Take(Get(billing_response, "citations", <<>>), 1),
     confidence |-> Get(billing_response, "top_score", 0),
     validation_details |-> validation.details]

\* ManagerAgent._create_approved_response
create_approved_response(billing_response, validation) ==
    [approved |-> TRUE, reason |-> validation.reason,
     answer |-> Get(billing_response, "answer", <<>>),
     citations |-> Get(billing_response, "citations", <<>>),
     confidence |-> Get(billing_response, "top_score", 0),
     validation_details |-> validation.details]

\* ManagerAgent._create_rejected_response
create_rejected_response(billing_response, validation) ==
    LET qs == generate_clarifying_questions(validation)
    IN [approved |-> FALSE, reason |-> validation.reason,
        clarifying_questions |-> qs,
        clarifying_message |->
            <<"I need a bit more information to answer your question accurately:", "\n">>
            \o Join([i \in DOMAIN qs |-> <<"(bullet) ">> \o qs[i]], NL),
        validation_details |-> validation.details,
        original_answer |-> Get(billing_response, "answer", <<>>),
        original_score |-> Get(billing_response, "top_score", 0)]

\* ManagerAgent.validate_response: [approved, result]
validate_response(billing_response) ==
    LET validation == manager_validate_response(Get(billing_response, "answer", <<>>),
                                                Get(billing_response, "citations", <<>>),
                                                Get(billing_response, "top_score", 0),
                                                STRICT_AMOUNT_VERIFICATION)
    IN IF validation.is_valid
       THEN [approved |-> TRUE, result |-> create_approved_response(billing_response, validation)]
       ELSE [approved |-> FALSE, result |-> create_rejected_response(billing_response, validation)]

(***************************************************************************)
(* agents/billing.py                                                       *)
(***************************************************************************)
\* parsed JSON values carry their Python type, which the structure check tests
JDict(d) == [t |-> "dict", v |-> d]
JList(l) == [t |-> "list", v |-> l]
JNum(n) == [t |-> "number", v |-> n]
JStr(x) == [t |-> "str", v |-> x]

A_137 == <<"Your", "January", "bill", "is", "$137.14">>
A_50 == <<"You", "owe", "$50">>
A_50_COMMA == <<"You", "owe", "$50,", "please", "pay">>
NOTE_HIGH == <<"High confidence">>

\* citations a completion may claim: one that names an indexed chunk, one that
\* names a chunk no index holds, one without a chunk id
CitOK == [doc_id |-> "DOC_4_INVOICE", chunk_id |-> 0, quote |-> <<"Total", "due", "$137.14">>]
CitHalluc == [doc_id |-> "DOC_9_UNKNOWN", chunk_id |-> 7, quote |-> <<"You", "owe", "$50">>]
CitNoChunk == [doc_id |-> "DOC_4_INVOICE", quote |-> <<"Total", "due">>]

\* the JSON documents of the universe, each one token of completion text
JsonDocNames == {"J_PROMPT_FORMAT", "J_WITH_SCORE", "J_HALLUC", "J_NO_CITATIONS", "J_TWO", "J_NO_ANSWER", "J_CIT_STRING", "J_CIT_NO_CHUNK", "J_NO_NOTE", "J_ARRAY", "J_NUMBER", "J_CIT_NUMBER", "J_LONG_QUOTE"}

\* json.loads on a document token
JsonDoc(name) ==
    CASE name = "J_PROMPT_FORMAT" ->
            JDict([answer |-> A_137, citations |-> JList(<<JDict(CitOK)>>), confidence_note |-> NOTE_HIGH])
      [] name = "J_WITH_SCORE" ->
            JDict([answer |-> A_137, citations |-> JList(<<JDict(CitOK)>>), confidence_note |-> NOTE_HIGH, top_score |-> 99])
      [] name = "J_HALLUC" ->
            JDict([answer |-> A_50, citations |-> JList(<<JDict(CitHalluc)>>), confidence_note |-> NOTE_HIGH, top_score |-> 99])
      [] name = "J_NO_CITATIONS" ->
            JDict([answer |-> A_50, citations |-> JList(<<>>), confidence_note |-> NOTE_HIGH, top_score |-> 99])
      [] name = "J_TWO" ->
            JDict([answer |-> A_137, citations |-> JList(<<JDict(CitOK), JDict(CitHalluc)>>), confidence_note |-> NOTE_HIGH, top_score |-> 99])
      [] name = "J_NO_ANSWER" ->
            JDict([citations |-> JList(<<JDict(CitOK)>>), confidence_note |-> NOTE_HIGH, top_score |-> 99])
      [] name = "J_CIT_STRING" ->
            JDict([answer |-> A_137, citations |-> JStr(<<"DOC_4_INVOICE">>), confidence_note |-> NOTE_HIGH, top_score |-> 99])
      [] name = "J_CIT_NO_CHUNK" ->
            JDict([answer |-> A_137, citations |-> JList(<<JDict(CitNoChunk)>>), confidence_note |-> NOTE_HIGH, top_score |-> 99])
      [] name = "J_NO_NOTE" ->
            JDict([answer |-> A_137, citations |-> JList(<<JDict(CitOK)>>), top_score |-> 99])
      [] name = "J_LONG_QUOTE" ->
            JDict([answer |-> A_137,
                   citations |-> JList(<<JDict([doc_id |-> "DOC_1_PLANS", chunk_id |-> 0, quote |-> LongText])>>),
                   confidence_note |-> NOTE_HIGH, top_score |-> 99])
      [] name = "J_ARRAY" -> JList(<<JNum(1), JNum(2)>>)
      [] name = "J_NUMBER" -> JNum(42)
      [] name = "J_CIT_NUMBER" ->
            JDict([answer |-> A_137, citations |-> JList(<<JNum(7)>>), confidence_note |-> NOTE_HIGH, top_score |-> 99])

\* what the completion service may return to the Billing agent: every document
\* bare, two of them in a code fence, and text that is no JSON at all
BillingCompletions ==
    {<<n>> : n \in JsonDocNames}
    \cup {<<"<fence>json", "\n", "J_WITH_SCORE", "\n", "<fence>">>, <<"<fence>", "J_HALLUC", "<fence>">>}
    \cup {<<"Your", "bill", "is", "$137.14">>, <<>>}

\* str.strip(): leading and trailing whitespace tokens removed
RECURSIVE Strip(_)
Strip(text) ==
    IF text = <<>> THEN text
    ELSE IF text[1] \in {" ", "\n"} THEN Strip(Tail(text))
    ELSE IF text[Len(text)] \in {" ", "\n"} THEN Strip(SubSeq(text, 1, Len(text) - 1))
    ELSE text

\* json.loads: [ok, value]; not ok is a JSONDecodeError
json_loads(text) ==
    IF Len(text) = 1 /\ text[1] \in JsonDocNames
    THEN [ok |-> TRUE, value |-> JsonDoc(text[1])]
    ELSE [ok |-> FALSE]

\* BillingAgent._parse_json_response: strip, drop an opening and a closing
\* code fence (three backquotes, written <fence> here), parse
parse_json_response(response_text) ==
    LET t0 == Strip(response_text)
        t1 == IF t0 # <<>> /\ t0[1] \in {"<fence>json", "<fence>"} THEN Tail(t0) ELSE t0
        t2 == IF t1 # <<>> /\ t1[Len(t1)] = "<fence>" THEN SubSeq(t1, 1, Len(t1) - 1) ELSE t1
    IN json_loads(Strip(t2))

\* BillingAgent._create_fallback_response
create_fallback_response(response_text, cs) ==
    [answer |-> response_text,
     citations |-> Take(create_citations_from_chunks(cs), FALLBACK_CITATIONS),
     confidence_note |-> <<"Response was reformatted for validation.">>]

\* a Python dict of the agent's own making, as a typed value
Typed(d) ==
    JDict([k \in DOMAIN d |-> IF k = "citations" THEN JList([i \in DOMAIN d[k] |-> JDict(d[k][i])]) ELSE d[k]])

\* the dict behind a typed value whose citations are a list of dicts
Plain(j) ==
    [k \in DOMAIN j.v |-> IF k = "citations" THEN [i \in DOMAIN j.v[k].v |-> j.v[k].v[i].v] ELSE j.v[k]]

\* GuardrailsChecker.validate_billing_response_structure (utils/guardrails.py):
\* "valid", "invalid", or "TypeError" where `f not in x` meets an x that is no container
validate_billing_response_structure(response_data) ==
    LET required_fields == {"answer", "citations", "top_score"}
        required_citation_fields == {"doc_id", "chunk_id", "quote"}
        \* f not in x, by the type of x
        missing(x, fields) == IF x.t = "dict" THEN fields \ DOMAIN x.v ELSE fields
        \* the first citation that is no container or lacks a field decides
        bad(cits, i) == cits[i].t = "number" \/ missing(cits[i], required_citation_fields) # {}
        firstBad(cits) == FirstIndex(cits, LAMBDA i : bad(cits, i))
    IN IF response_data.t = "number" THEN "TypeError"
       ELSE IF missing(response_data, required_fields) # {} THEN "invalid"
       ELSE IF response_data.v.citations.t # "list" THEN "invalid"
       ELSE IF firstBad(response_data.v.citations.v) = 0 THEN "valid"
       ELSE IF response_data.v.citations.v[firstBad(response_data.v.citations.v)].t = "number" THEN "TypeError"
       ELSE "invalid"

\* BillingAgent._generate_response, given the completion text: [raised, data]
generate_response_billing(response_text, cs) ==
    LET parsed == parse_json_response(response_text)
        fallback == create_fallback_response(response_text, cs)
        response_data == IF parsed.ok THEN parsed.value ELSE Typed(fallback)
        validation == validate_billing_response_structure(response_data)
    IN IF validation = "TypeError" THEN [raised |-> TRUE, data |-> EmptyDict]
       ELSE IF validation = "invalid" THEN [raised |-> FALSE, data |-> fallback]
       ELSE [raised |-> FALSE, data |-> Plain(response_data)]

\* BillingAgent._create_not_found_response
create_not_found_response ==
    [answer |-> <<"I couldn't find specific information about your account in our records.">>,
     citations |-> <<>>,
     top_score |-> 0,
     confidence_note |-> <<"No relevant documents found.">>,
     clarifying_questions |-> <<<<"Can you confirm your account number?">>, <<"Which billing period are you asking about?">>>>]

\* the search query of process_query: the session context, when there is one, then the query
search_query(q, session_context) ==
    IF session_context # <<>> THEN session_context \o <<" ">> \o q ELSE q

\* variant of process_query that asks for the completion before it looks at
\* the chunks
process_query_completes_first(q, session_context, matches, response_text) ==
    LET r == retrieve(matches)
        g == generate_response_billing(response_text, r.chunks)
    IN IF r.chunks = <<>>
       THEN [raised |-> FALSE, data |-> create_not_found_response, chunks |-> r.chunks, completions |-> <<response_text>>]
       ELSE IF g.raised THEN [raised |-> TRUE, data |-> EmptyDict, chunks |-> r.chunks, completions |-> <<response_text>>]
       ELSE [raised |-> FALSE,
             data |-> [k \in DOMAIN g.data \cup {"top_score"} |-> IF k = "top_score" THEN r.top_score ELSE g.data[k]],
             chunks |-> r.chunks, completions |-> <<response_text>>]

\* variant of process_query that keeps the top_score the completion supplies
process_query_keeps_completion_score(q, session_context, matches, response_text) ==
    LET r == retrieve(matches)
        g == generate_response_billing(response_text, r.chunks)
    IN IF r.chunks = <<>>
       THEN [raised |-> FALSE, data |-> create_not_found_response, chunks |-> r.chunks, completions |-> <<>>]
       ELSE IF g.raised THEN [raised |-> TRUE, data |-> EmptyDict, chunks |-> r.chunks, completions |-> <<response_text>>]
       ELSE [raised |-> FALSE,
             data |-> [k \in DOMAIN g.data \cup {"top_score"} |->
                         IF k = "top_score" /\ k \notin DOMAIN g.data THEN r.top_score ELSE g.data[k]],
             chunks |-> r.chunks, completions |-> <<response_text>>]

\* BillingAgent.process_query, given what the index and the completion service
\* return: [raised, data, chunks, completions], completions being the texts
\* the completion service returned to the call, one per request the call issued
process_query(q, session_context, matches, response_text) ==
    LET r == retrieve(matches)
        g == generate_response_billing(response_text, r.chunks)
    IN IF r.chunks = <<>>
       THEN [raised |-> FALSE, data |-> create_not_found_response, chunks |-> r.chunks, completions |-> <<>>]
       ELSE IF g.raised THEN [raised |-> TRUE, data |-> EmptyDict, chunks |-> r.chunks, completions |-> <<response_text>>]
       ELSE [raised |-> FALSE,
             data |-> [k \in DOMAIN g.data \cup {"top_score"} |-> IF k = "top_score" THEN r.top_score ELSE g.data[k]],
             chunks |-> r.chunks, completions |-> <<response_text>>]

(***************************************************************************)
(* agents/sales.py                                                         *)
(***************************************************************************)
\* what the completion service may return as a classification label
ClassifierOutputs ==
    {<<"billing_account_specific">>, <<"billing_general">>, <<"sales_general">>,
     <<" ", "BILLING_GENERAL", "\n">>, <<"unknown">>,
     <<"billing_general", "or", "billing_account_specific">>}

\* what the completion service may return as a Sales draft
SalesDrafts == {<<>>, <<"We", "offer", "Basic", "and", "Pro", "plans">>, <<"Your", "bill", "is", "$137.14">>}

\* `name in intent`, token by token: a token holds the name when it is the
\* name or the name in quotes or with a full stop
NameInside(intent, name) ==
    \E i \in DOMAIN intent : intent[i] \in {name, "\"" \o name \o "\"", name \o "."}

\* variant of classify_query whose default is the general billing intent
classify_query_defaults_to_billing(label) ==
    LET intent == LowerText(Strip(label))
    IN IF NameInside(intent, "billing_account_specific") THEN "billing_account_specific"
       ELSE IF NameInside(intent, "sales_general") THEN "sales_general"
       ELSE "billing_general"

\* SalesAgent.classify_query, given the completion text
classify_query(label) ==
    LET intent == LowerText(Strip(label))
    IN IF NameInside(intent, "billing_account_specific") THEN "billing_account_specific"
       ELSE IF NameInside(intent, "billing_general") THEN "billing_general"
       ELSE "sales_general"

\* SalesAgent._check_needs_billing_routing, given the label of its own classification call
check_needs_billing_routing(response, label) ==
    LET intent == classify_query(label)
    IN IF intent = "billing_account_specific" THEN TRUE
       ELSE IF ~check_sales_agent_response(response, intent) THEN TRUE
       ELSE FALSE

\* SalesAgent.generate_response: [response, needs_routing]
generate_response_sales(response_text, label) ==
    [response |-> response_text, needs_routing |-> check_needs_billing_routing(response_text, label)]

\* SalesAgent.format_final_response
format_final_response(billing_response, approved) ==
    IF ~approved
    THEN <<"I apologize, but I couldn't find enough information to answer your question precisely. ">>
         \o Get(billing_response, "clarifying_message", <<"Could you please provide more details about your account?">>)
    ELSE LET cits == Get(billing_response, "citations", <<>>)
             lines == [i \in DOMAIN cits |->
                         <<"  [", ToString(i), "] ", Get(cits[i], "doc_id", "Unknown"), " - \"">>
                         \o Take(Get(cits[i], "quote", <<>>), 50) \o <<"...\"">>]
         IN Join(<<Get(billing_response, "answer", <<>>)>> \o (IF cits # <<>> THEN <<<<"\n\nSources:">>>> \o lines ELSE <<>>), NL)

(***************************************************************************)
(* graph.py: the node functions, each from the state it is given to the    *)
(* state it returns                                                        *)
(***************************************************************************)
BillingIntents == {"billing_account_specific", "billing_general"}

\* the initial_state of run_query
InitialState(q, sid, session_context) ==
    [query |-> q, session_id |-> sid, session_context |-> session_context, intent |-> "",
     messages |-> <<>>, billing_response |-> EmptyDict, manager_result |-> EmptyDict,
     final_response |-> <<>>, trace |-> <<>>, citations |-> <<>>]

\* variant of router_node that merges the entities into a default session
\* when the run has no session id
router_sessions_default_session(st, ss) ==
    extract_and_update_session(ss, st.query, IF st.session_id # "" THEN st.session_id ELSE "s1")

\* router_node, part 1: the session store after the entities of the query are merged
router_sessions(st, ss) ==
    IF st.session_id # "" THEN extract_and_update_session(ss, st.query, st.session_id) ELSE ss

\* variant of router_node that does not read the session again: the context
\* stays the one run_query computed before the workflow started
router_node_keeps_start_context(st, ss, tt, label) ==
    [st EXCEPT !.intent = classify_query(label),
               !.trace = Append(@, [who |-> "Router", what |-> "classified as", intent |-> classify_query(label)])]

\* router_node, part 2: the state returned, given the store as updated and the
\* label the classification call returned
router_node(st, ss, tt, label) ==
    LET session == IF st.session_id # "" THEN store_get(ss, tt, st.session_id) ELSE None
        context == IF session # None THEN get_context_summary(session[1]) ELSE <<>>
        intent == classify_query(label)
    IN [st EXCEPT !.session_context = IF context # <<>> THEN context ELSE @,
                  !.intent = intent,
                  !.trace = Append(@, [who |-> "Router", what |-> "classified as", intent |-> intent])]

\* variant of sales_node that stores the label of its own classification as
\* the intent
sales_node_stores_own_intent(st, draft, label) ==
    IF generate_response_sales(draft, label).needs_routing
    THEN [st EXCEPT !.intent = classify_query(label),
                    !.trace = Append(@, [who |-> "SalesAgent", what |-> "routing to BillingAgent"])]
    ELSE [st EXCEPT !.intent = classify_query(label),
                    !.final_response = generate_response_sales(draft, label).response,
                    !.trace = Append(@, [who |-> "SalesAgent", what |-> "provided response"])]

\* sales_node, given the draft and the label of the Sales agent's own classification
sales_node(st, draft, label) ==
    IF st.manager_result # EmptyDict
    THEN [st EXCEPT !.final_response = format_final_response(st.manager_result, Get(st.manager_result, "approved", FALSE)),
                    !.trace = Append(@, [who |-> "SalesAgent", what |-> "provided response"])]
    ELSE IF generate_response_sales(draft, label).needs_routing
    THEN [st EXCEPT !.trace = Append(@, [who |-> "SalesAgent", what |-> "routing to BillingAgent"])]
    ELSE [st EXCEPT !.final_response = generate_response_sales(draft, label).response,
                    !.trace = Append(@, [who |-> "SalesAgent", what |-> "provided response"])]

\* variant of billing_node that also publishes the answer as the final response
billing_node_writes_final_response(st, billing_response) ==
    [st EXCEPT !.billing_response = billing_response,
               !.final_response = Get(billing_response, "answer", <<>>),
               !.trace = Append(@, [who |-> "BillingAgent", what |-> "retrieved docs, score=", score |-> Get(billing_response, "top_score", 0)])]

\* variant of billing_node that also copies the answer's citations into the
\* shared citations field
billing_node_writes_citations(st, billing_response) ==
    [st EXCEPT !.billing_response = billing_response,
               !.citations = Get(billing_response, "citations", <<>>),
               !.trace = Append(@, [who |-> "BillingAgent", what |-> "retrieved docs, score=", score |-> Get(billing_response, "top_score", 0)])]

\* variant of billing_node that starts the trace again with its own entry
billing_node_resets_trace(st, billing_response) ==
    [st EXCEPT !.billing_response = billing_response,
               !.trace = <<[who |-> "BillingAgent", what |-> "retrieved docs, score=", score |-> Get(billing_response, "top_score", 0)]>>]

\* billing_node, given the Billing Answer process_query returned
billing_node(st, billing_response) ==
    [st EXCEPT !.billing_response = billing_response,
               !.trace = Append(@, [who |-> "BillingAgent", what |-> "retrieved docs, score=", score |-> Get(billing_response, "top_score", 0)])]

\* manager_node
manager_node(st) ==
    LET v == validate_response(st.billing_response)
    IN [st EXCEPT !.manager_result = v.result,
                  !.trace = Append(@, [who |-> "ManagerAgent", what |-> IF v.approved THEN "APPROVED" ELSE "REJECTED", reason |-> v.result.reason]),
                  !.citations = IF v.approved THEN Get(v.result, "citations", <<>>) ELSE @]

\* variant of the source list that numbers its lines from 0
source_lines_from_zero(citations) ==
    [i \in DOMAIN citations |->
        <<"  [", ToString(i - 1), "] ", Get(citations[i], "doc_id", "Unknown"), ": \"">>
        \o Take(Get(citations[i], "quote", <<>>), QUOTE_SLICE) \o <<"...\"">>]

\* the source list of format_response_node: one line per citation, numbered from 1
source_lines(citations) ==
    [i \in DOMAIN citations |->
        <<"  [", ToString(i), "] ", Get(citations[i], "doc_id", "Unknown"), ": \"">>
        \o Take(Get(citations[i], "quote", <<>>), QUOTE_SLICE) \o <<"...\"">>]

\* variant of format_response_node that does not look at the verdict: it
\* always shows the Billing Answer
format_response_node_ignores_verdict(st) ==
    [st EXCEPT !.final_response = Get(st.billing_response, "answer", <<>>),
               !.trace = Append(@, [who |-> "Formatted final response"])]

\* format_response_node
format_response_node(st) ==
    LET manager_result == st.manager_result
        answer == Get(manager_result, "answer", <<>>)
        citations == Get(manager_result, "citations", <<>>)
    IN IF Get(manager_result, "approved", FALSE)
       THEN [st EXCEPT !.final_response =
                          Join(<<answer>> \o (IF citations # <<>> THEN <<<<"\n\nSources:">>>> \o source_lines(citations) ELSE <<>>), NL),
                       !.citations = citations,
                       !.trace = Append(@, [who |-> "Formatted final response"])]
       ELSE [st EXCEPT !.final_response = Get(manager_result, "clarifying_message", <<"I need more information to answer your question.">>),
                       !.trace = Append(@, [who |-> "Formatted final response"])]

\* variant of route_after_router that sends only the account-specific
\* billing intent to Billing
route_after_router_general_to_sales(st) ==
    IF Get(st, "intent", "") = "billing_account_specific" THEN "billing" ELSE "sales"

\* route_after_router
route_after_router(st) ==
    IF Get(st, "intent", "") = "billing_account_specific" THEN "billing"
    ELSE IF Get(st, "intent", "") = "billing_general" THEN "billing"
    ELSE "sales"

\* route_after_sales
route_after_sales(st) ==
    IF Get(st, "final_response", <<>>) # <<>> THEN "END"
    ELSE IF Get(st, "intent", "") \in BillingIntents THEN "billing"
    ELSE "END"

\* variant of the edge after Billing that skips the Manager
edge_after_billing_skips_manager == "format_response"

\* create_workflow: add_edge("billing", "manager")
edge_after_billing == "manager"
\* create_workflow: add_edge("manager", "format_response")
edge_after_manager == "format_response"
\* create_workflow: add_edge("format_response", END)
edge_after_format_response == "END"

\* variant of the return value that reports approved = false when no
\* validation took place
run_query_result_unvalidated_is_rejected(final_state) ==
    [final_response |-> Get(final_state, "final_response", <<"No response generated">>),
     citations |-> Get(final_state, "citations", <<>>),
     trace |-> Get(final_state, "trace", <<>>),
     approved |-> Some(Get(Get(final_state, "manager_result", EmptyDict), "approved", FALSE))]

\* the return value of run_query; approved is None or Some(bool)
run_query_result(final_state) ==
    [final_response |-> Get(final_state, "final_response", <<"No response generated">>),
     citations |-> Get(final_state, "citations", <<>>),
     trace |-> Get(final_state, "trace", <<>>),
     approved |-> IF "approved" \in DOMAIN Get(final_state, "manager_result", EmptyDict)
                  THEN Some(final_state.manager_result.approved) ELSE None]

(***************************************************************************)
(* The workflow as a state machine.  pc is the node about to run           *)
(* ("start" before run_query's prologue, "END" when the workflow is over   *)
(* and the epilogue is due, "returned" and "raised" when run_query is      *)
(* over).  path, chunks and needs_routing record what the run did: the     *)
(* nodes executed so far, the chunks retrieved by the Billing call, the    *)
(* flag the Sales agent computed.                                          *)
(***************************************************************************)
NoResult == EmptyDict

\* the stores a run may find: no session, a fresh session, a session that
\* knows the account and holds earlier turns
OldTurn(i) == [session_id |-> "s1", role |-> IF i % 2 = 1 THEN "user" ELSE "assistant", content |-> IF i % 2 = 1 THEN Q_OWE ELSE A_50]
InitStores ==
    {[sessions |-> EmptyDict, turns |-> <<>>],
     [sessions |-> [k \in {"s1"} |-> NewRow("s1")], turns |-> <<>>],
     [sessions |-> [k \in {"s1"} |-> [NewRow("s1") EXCEPT !.account_id = Some("ACC-789456123")]],
      turns |-> [i \in 1..MaxInitTurns |-> OldTurn(i)]]}

ValIdle == [idle |-> TRUE]
\* the store harness at rest: no call made, nothing logged
NoLog == EmptyDict
NoCall == [op |-> "none"]
\* no connection open, nothing observed
TxnIdle == conn = EmptyDict /\ wlock = "" /\ observed = 0 /\ committed_updates = <<>>

Init ==
    /\ pc = "start"
    /\ query \in Queries
    /\ session_id \in {""} \cup SessionIds
    /\ \E st \in InitStores : sessions = st.sessions /\ turns = st.turns
    /\ state = EmptyDict
    /\ result = NoResult
    /\ path = <<>>
    /\ chunks = <<>>
    /\ completions = <<>>
    /\ needs_routing = FALSE
    /\ vin = ValIdle
    /\ vout = ValIdle
    /\ history_log = NoLog
    /\ last_call = NoCall
    /\ TxnIdle

\* run_query up to the invoke of the workflow
RunQueryStart ==
    /\ pc = "start"
    /\ IF session_id # ""
       THEN LET g == store_get_or_create(sessions, turns, session_id)
            IN /\ sessions' = g.sessions
               /\ turns' = store_add_conversation_turn(g.sessions, turns, session_id, "user", query)
               /\ state' = InitialState(query, session_id, get_context_summary(g.session))
       ELSE /\ state' = InitialState(query, "", <<>>)
            /\ UNCHANGED <<sessions, turns>>
    /\ pc' = "router"
    /\ UNCHANGED <<query, session_id, result, path, chunks, completions, needs_routing, harness>>

\* the Router node and the conditional edge after it
RouterNode ==
    /\ pc = "router"
    /\ \E label \in ClassifierOutputs :
        /\ sessions' = router_sessions(state, sessions)
        /\ state' = router_node(state, sessions', turns, label)
        /\ pc' = route_after_router(state')
    /\ path' = Append(path, "router")
    /\ UNCHANGED <<query, session_id, turns, result, chunks, completions, needs_routing, harness>>

\* the Router node when its classification call raises: the entities are
\* already merged into the session
RouterRaises ==
    /\ pc = "router"
    /\ sessions' = router_sessions(state, sessions)
    /\ pc' = "raised"
    /\ UNCHANGED <<query, session_id, state, turns, result, path, chunks, completions, needs_routing, harness>>

\* the Sales node and the conditional edge after it
SalesNode ==
    /\ pc = "sales"
    /\ \E draft \in SalesDrafts, label \in ClassifierOutputs :
        /\ state' = sales_node(state, draft, label)
        /\ needs_routing' = (state.manager_result = EmptyDict /\ generate_response_sales(draft, label).needs_routing)
        /\ pc' = route_after_sales(state')
    /\ path' = Append(path, "sales")
    /\ UNCHANGED <<query, session_id, sessions, turns, result, chunks, completions, harness>>

\* the Billing node and the edge after it; the node raises when the
\* structure check meets a value that is no container
BillingNode ==
    /\ pc = "billing"
    /\ \E matches \in MatchLists, response_text \in BillingCompletions :
        LET r == process_query(state.query, Get(state, "session_context", <<>>), matches, response_text)
        IN /\ chunks' = r.chunks
           /\ completions' = r.completions
           /\ IF r.raised
              THEN /\ pc' = "raised"
                   /\ UNCHANGED <<state, path>>
              ELSE /\ state' = billing_node(state, r.data)
                   /\ path' = Append(path, "billing")
                   /\ pc' = edge_after_billing
    /\ UNCHANGED <<query, session_id, sessions, turns, result, needs_routing, harness>>

\* variant of the failing call whose error is caught and answered with a
\* rejection, which the Formatter then turns into a clarifying message
ExternalCallRaises_as_rejection ==
    /\ pc \in {"sales", "billing"}
    /\ state' = [state EXCEPT !.manager_result = create_rejected_response(EmptyDict,
                                    [is_valid |-> FALSE, reason |-> [text |-> "call failed"], details |-> EmptyDict])]
    /\ pc' = "format_response"
    /\ UNCHANGED <<query, session_id, sessions, turns, result, path, chunks, completions, needs_routing, harness>>

\* a completion, embedding or index call of the Sales or Billing node raises
ExternalCallRaises ==
    /\ pc \in {"sales", "billing"}
    /\ pc' = "raised"
    /\ UNCHANGED <<query, session_id, state, sessions, turns, result, path, chunks, completions, needs_routing, harness>>

\* the Manager node and the edge after it
ManagerNode ==
    /\ pc = "manager"
    /\ state' = manager_node(state)
    /\ path' = Append(path, "manager")
    /\ pc' = edge_after_manager
    /\ UNCHANGED <<query, session_id, sessions, turns, result, chunks, completions, needs_routing, harness>>

\* the Formatter node and the edge after it
FormatResponseNode ==
    /\ pc = "format_response"
    /\ state' = format_response_node(state)
    /\ path' = Append(path, "format_response")
    /\ pc' = edge_after_format_response
    /\ UNCHANGED <<query, session_id, sessions, turns, result, chunks, completions, needs_routing, harness>>

\* another caller deletes the session of the running query
SessionDeleted ==
    /\ pc \in {"router", "sales", "billing", "manager", "format_response", "END"}
    /\ session_id # ""
    /\ session_id \in DOMAIN sessions
    /\ sessions' = store_delete(sessions, turns, session_id).sessions
    /\ turns' = store_delete(sessions, turns, session_id).turns
    /\ UNCHANGED <<pc, query, session_id, state, result, path, chunks, completions, needs_routing, harness>>

\* variant of the end of run_query that records no assistant turn
RunQueryFinish_without_assistant_turn ==
    /\ pc = "END"
    /\ LET final_response == Get(state, "final_response", <<"No response generated">>)
       IN IF session_id # ""
          THEN /\ turns' = turns
               /\ sessions' = store_update(sessions, session_id,
                                  [last_query |-> Some(query), last_response |-> Some(Take(final_response, LAST_RESPONSE_CHARS))])
          ELSE UNCHANGED <<sessions, turns>>
    /\ result' = run_query_result(state)
    /\ pc' = "returned"
    /\ UNCHANGED <<query, session_id, state, path, chunks, completions, needs_routing, harness>>

\* run_query after the workflow: the assistant turn, the last_query /
\* last_response update, the result
RunQueryFinish ==
    /\ pc = "END"
    /\ LET final_response == Get(state, "final_response", <<"No response generated">>)
       IN IF session_id # ""
          THEN /\ turns' = store_add_conversation_turn(sessions, turns, session_id, "assistant", final_response)
               /\ sessions' = store_update(sessions, session_id,
                                  [last_query |-> Some(query), last_response |-> Some(Take(final_response, LAST_RESPONSE_CHARS))])
          ELSE UNCHANGED <<sessions, turns>>
    /\ result' = run_query_result(state)
    /\ pc' = "returned"
    /\ UNCHANGED <<query, session_id, state, path, chunks, completions, needs_routing, harness>>

Next ==
    \/ RunQueryStart
    \/ RouterNode
    \/ RouterRaises
    \/ SalesNode
    \/ BillingNode
    \/ ExternalCallRaises
    \/ SessionDeleted
    \/ ManagerNode
    \/ FormatResponseNode
    \/ RunQueryFinish

Spec == Init /\ [][Next]_vars

(***************************************************************************)
(* The validator on its own: manager_validate_response applied to every    *)
(* answer, citation list, score and strict setting of a bounded universe   *)
(***************************************************************************)
CitPlain == [doc_id |-> "DOC_2_POLICY", chunk_id |-> 0, quote |-> <<"Bills", "are", "monthly">>]
ValCitations == {CitOK, CitHalluc, CitPlain}
ValCitationLists == UNION {[1..n -> ValCitations] : n \in 0..MaxCitations}
ValAnswers == {<<>>, A_137, A_50, A_50_COMMA, <<"Bills", "are", "monthly">>}
ValScores == {0, CONFIDENCE_THRESHOLD - 1, CONFIDENCE_THRESHOLD, CONFIDENCE_THRESHOLD + 1, 100}

InitValidator ==
    /\ vin \in [answer : ValAnswers, citations : ValCitationLists, top_score : ValScores, strict : BOOLEAN]
    /\ vout = ValIdle
    /\ pc = "idle"
    /\ query = <<>>
    /\ session_id = ""
    /\ state = EmptyDict
    /\ sessions = EmptyDict
    /\ turns = <<>>
    /\ result = NoResult
    /\ path = <<>>
    /\ chunks = <<>>
    /\ completions = <<>>
    /\ needs_routing = FALSE
    /\ history_log = NoLog
    /\ last_call = NoCall
    /\ TxnIdle

\* one call of GuardrailsChecker.manager_validate_response
ValidateCall ==
    /\ vout = ValIdle
    /\ vin # ValIdle
    /\ vout' = manager_validate_response(vin.answer, vin.citations, vin.top_score, vin.strict)
    /\ UNCHANGED <<vin, wfvars, storevars, txnvars>>

\* ManagerAgent.validate_response from the validation result on: the approved
\* or the rejected response
ManagerRespond ==
    /\ vout # ValIdle
    /\ result = NoResult
    /\ LET billing_response == [answer |-> vin.answer, citations |-> vin.citations, top_score |-> vin.top_score]
       IN result' = IF vout.is_valid THEN create_approved_response(billing_response, vout)
                    ELSE create_rejected_response(billing_response, vout)
    /\ UNCHANGED <<pc, query, session_id, state, sessions, turns, path, chunks, completions, needs_routing, harness>>

NextValidator == ValidateCall \/ ManagerRespond

SpecValidator == InitValidator /\ [][NextValidator]_vars

(***************************************************************************)
(* The classifier on its own: classify_query applied to every completion   *)
(* text of a bounded universe, and route_after_router to its intent        *)
(***************************************************************************)
\* completion texts of up to MaxLabelLen tokens: the three names in several
\* spellings, other words, white space
ClassifierLabels ==
    UNION {[1..n -> {"billing_account_specific", "Billing_Account_Specific", "\"billing_account_specific\"",
                     "billing_general", "BILLING_GENERAL", "billing_general.",
                     "sales_general", "unknown", "billing", " ", "\n"}] : n \in 0..MaxLabelLen}

InitClassifier ==
    /\ vin \in [label : ClassifierLabels]
    /\ vout = ValIdle
    /\ pc = "idle"
    /\ query = <<>>
    /\ session_id = ""
    /\ state = EmptyDict
    /\ sessions = EmptyDict
    /\ turns = <<>>
    /\ result = NoResult
    /\ path = <<>>
    /\ chunks = <<>>
    /\ completions = <<>>
    /\ needs_routing = FALSE
    /\ history_log = NoLog
    /\ last_call = NoCall
    /\ TxnIdle

\* one call of SalesAgent.classify_query, and the branch the Router's edge
\* takes on the intent it returns
ClassifyCall ==
    /\ vout = ValIdle
    /\ vin # ValIdle
    /\ vout' = [intent |-> classify_query(vin.label),
                next |-> route_after_router([intent |-> classify_query(vin.label)])]
    /\ UNCHANGED <<vin, wfvars, storevars, txnvars>>

SpecClassifier == InitClassifier /\ [][ClassifyCall]_vars

(***************************************************************************)
(* Topic detection on its own: _extract_topic applied to every message of  *)
(* a bounded universe                                                      *)
(***************************************************************************)
\* messages of up to MaxTopicWords words, with and without keywords
TopicTexts ==
    UNION {[1..n -> {"plans", "bill", "billing", "late", "fee", "overdue", "refund", "help", "hello"}] : n \in 0..MaxTopicWords}

InitTopic ==
    /\ vin \in [text : TopicTexts]
    /\ vout = ValIdle
    /\ pc = "idle"
    /\ query = <<>>
    /\ session_id = ""
    /\ state = EmptyDict
    /\ sessions = EmptyDict
    /\ turns = <<>>
    /\ result = NoResult
    /\ path = <<>>
    /\ chunks = <<>>
    /\ completions = <<>>
    /\ needs_routing = FALSE
    /\ history_log = NoLog
    /\ last_call = NoCall
    /\ TxnIdle

\* one call of EntityExtractor._extract_topic
ExtractTopicCall ==
    /\ vout = ValIdle
    /\ vin # ValIdle
    /\ vout' = [topic |-> extract_topic(vin.text)]
    /\ UNCHANGED <<vin, wfvars, storevars, txnvars>>

SpecTopic == InitTopic /\ [][ExtractTopicCall]_vars

(***************************************************************************)
(* The session store on its own: callers use the SessionStore methods one  *)
(* call at a time on two session ids.  history_log records, per session,   *)
(* every turn inserted since the session was created; last_call records    *)
(* the latest call, its arguments and the value it returned.               *)
(***************************************************************************)
StoreIds == {"s1", "s2"}
\* texts given to extract_and_update_session: no entity, a topic, an account
\* with a period and a topic, another account
StoreTexts == {Q_OWE, Q_PLANS, Q_ACCT, <<"use", "ACC-789456123">>}
\* keyword arguments given to update: an allowed field, a field update ignores
StoreKwargs == {[customer_name |-> Some("Dileep")], [nickname |-> Some("dd")]}
\* what the extractor finds in each of these texts, and the updates dict
\* extract_and_update_session builds from it
ExtractedFrom == [text \in StoreTexts |-> extract(text)]
UpdatesFrom == [text \in StoreTexts |-> entity_updates(text)]
\* the n-th turn inserted into a session
NthTurn(n) == [role |-> IF n % 2 = 1 THEN "user" ELSE "assistant", content |-> <<"turn", ToString(n)>>]
\* the number of turns a caller of the history specification inserts into sid
TurnBudget(sid) == IF sid = "s1" THEN MaxTurnsAdded ELSE MaxOtherTurns

InitStore ==
    /\ sessions = EmptyDict
    /\ turns = <<>>
    /\ history_log = [sid \in StoreIds |-> <<>>]
    /\ last_call = NoCall
    /\ pc = "idle"
    /\ query = <<>>
    /\ session_id = ""
    /\ state = EmptyDict
    /\ result = NoResult
    /\ path = <<>>
    /\ chunks = <<>>
    /\ completions = <<>>
    /\ needs_routing = FALSE
    /\ vin = ValIdle
    /\ vout = ValIdle
    /\ TxnIdle

StoreFrame == UNCHANGED <<pc, query, session_id, state, result, path, chunks, completions, needs_routing, valvars, txnvars>>

\* store.get_or_create(sid)
StoreGetOrCreate ==
    \E sid \in StoreIds :
        LET g == store_get_or_create(sessions, turns, sid)
        IN /\ sessions' = g.sessions
           /\ last_call' = [op |-> "get_or_create", sid |-> sid, value |-> Some(g.session),
                            created |-> sid \notin DOMAIN sessions,
                            after_create |-> last_call = [op |-> "get_or_create", sid |-> sid, value |-> Some(g.session),
                                                          created |-> TRUE, after_create |-> FALSE]]
           /\ UNCHANGED <<turns, history_log>>
           /\ StoreFrame

\* store.get(sid)
StoreGet ==
    \E sid \in StoreIds :
        /\ last_call' = [op |-> "get", sid |-> sid, value |-> store_get(sessions, turns, sid)]
        /\ UNCHANGED <<sessions, turns, history_log>>
        /\ StoreFrame

\* store.update(sid, **kwargs)
StoreUpdate ==
    \E sid \in StoreIds, kwargs \in StoreKwargs :
        /\ sessions' = store_update(sessions, sid, kwargs)
        /\ last_call' = [op |-> "update", sid |-> sid, kwargs |-> kwargs,
                         value |-> store_update_result(sessions, turns, sid, kwargs)]
        /\ UNCHANGED <<turns, history_log>>
        /\ StoreFrame

\* extractor.extract_and_update_session(text, sid, store)
StoreExtractAndUpdate ==
    \E sid \in StoreIds, text \in StoreTexts :
        /\ sessions' = update_if_any(sessions, sid, UpdatesFrom[text])
        /\ last_call' = [op |-> "extract_and_update_session", sid |-> sid, text |-> text, value |-> ExtractedFrom[text]]
        /\ UNCHANGED <<turns, history_log>>
        /\ StoreFrame

\* store.add_conversation_turn(sid, role, content), at most budget turns per session
AddTurn(sid, budget) ==
        LET t == NthTurn(Len(history_log[sid]) + 1)
        IN /\ Len(history_log[sid]) < budget
           /\ turns' = store_add_conversation_turn(sessions, turns, sid, t.role, t.content)
           /\ history_log' = IF sid \in DOMAIN sessions THEN [history_log EXCEPT ![sid] = Append(@, t)] ELSE history_log
           /\ last_call' = [op |-> "add_conversation_turn", sid |-> sid,
                            value |-> store_add_conversation_turn_result(sessions, turns, sid, t.role, t.content)]
           /\ UNCHANGED sessions
           /\ StoreFrame

StoreAddTurn == \E sid \in StoreIds : AddTurn(sid, MaxOtherTurns)

\* the same call, made often enough on one session for the trim to act
HistoryAddTurn == \E sid \in StoreIds : AddTurn(sid, TurnBudget(sid))

\* store.delete(sid)
StoreDelete ==
    \E sid \in StoreIds :
        LET d == store_delete(sessions, turns, sid)
        IN /\ sessions' = d.sessions
           /\ turns' = d.turns
           /\ history_log' = [history_log EXCEPT ![sid] = <<>>]
           /\ last_call' = [op |-> "delete", sid |-> sid, deleted |-> d.deleted]
           /\ StoreFrame

NextStore ==
    \/ StoreGetOrCreate
    \/ StoreGet
    \/ StoreUpdate
    \/ StoreExtractAndUpdate
    \/ StoreAddTurn
    \/ StoreDelete

SpecStore == InitStore /\ [][NextStore]_vars

\* the store under long conversations: sessions are created, read, written
\* to many times and deleted
NextHistory ==
    \/ StoreGetOrCreate
    \/ StoreGet
    \/ HistoryAddTurn
    \/ StoreDelete

SpecHistory == InitStore /\ [][NextHistory]_vars

(***************************************************************************)
(* The session store under concurrent callers.  Every SessionStore method  *)
(* opens its own connection (_get_conn) and runs its statements on it, one *)
(* at a time; a connection's first INSERT / UPDATE / DELETE opens a        *)
(* transaction and takes the database's single write lock, commit() makes  *)
(* the transaction's changes visible and releases the lock, and a          *)
(* connection that cannot get the lock waits or, when its timeout expires, *)
(* raises "database is locked".  sessions and turns are the committed      *)
(* tables, which is what every other connection reads.                     *)
(***************************************************************************)
Procs == {"p1", "p2"}

\* the variant of add_conversation_turn that commits the INSERT before the trim
add_conversation_turn_commits_insert_first ==
    <<"SELECT_SESSION", "INSERT_TURN", "COMMIT", "UPDATE_LAST_ACTIVITY", "DELETE_OLD_TURNS", "COMMIT", "GET">>

\* the statements of add_conversation_turn, in program order
add_conversation_turn_statements ==
    <<"SELECT_SESSION", "INSERT_TURN", "UPDATE_LAST_ACTIVITY", "DELETE_OLD_TURNS", "COMMIT", "GET">>

\* the statements of update (called with at least one allowed field)
update_statements == <<"UPDATE_FIELDS", "COMMIT", "GET">>

\* the statements of get_or_create: the SELECT of get, which returns the
\* session when there is one, then the INSERT and the commit of create
get_or_create_statements == <<"GET_SESSION", "INSERT_SESSION", "COMMIT">>

\* the statements of delete
delete_statements == <<"DELETE_TURNS", "DELETE_SESSION", "COMMIT">>

WriteStatements == {"INSERT_TURN", "UPDATE_LAST_ACTIVITY", "DELETE_OLD_TURNS", "UPDATE_FIELDS",
                    "INSERT_SESSION", "DELETE_TURNS", "DELETE_SESSION"}

Program(op) ==
    CASE op = "add_conversation_turn" -> add_conversation_turn_statements
      [] op = "get_or_create" -> get_or_create_statements
      [] op = "delete" -> delete_statements
      [] OTHER -> update_statements

\* the fields concurrent callers write: entity fields, and the last_query /
\* last_response pair that run_query writes at the end of a run
TxnKwargs ==
    {[customer_name |-> Some("Dileep")],
     [account_id |-> Some("ACC-DEMO-001"), customer_name |-> Some("Asha")],
     [last_query |-> Some(Q_OWE), last_response |-> Some(A_50)]}

\* a closed connection, after n calls
IdleConn(n) == [op |-> "idle", ip |-> 0, intxn |-> FALSE, calls |-> n]

\* the statement a connection is about to run
Stmt(p) == IF conn[p].op = "idle" THEN "" ELSE Program(conn[p].op)[conn[p].ip]

\* "s1" exists and holds 9 or 10 turns; nobody is connected
InitTxn ==
    /\ \E n \in {MAX_HISTORY - 1, MAX_HISTORY} :
        /\ turns = [i \in 1..n |-> [session_id |-> "s1", role |-> NthTurn(i).role, content |-> NthTurn(i).content]]
        /\ history_log = [sid \in StoreIds |-> IF sid = "s1" THEN [i \in 1..n |-> NthTurn(i)] ELSE <<>>]
    /\ sessions = [k \in {"s1"} |-> NewRow("s1")]
    /\ conn = [p \in Procs |-> IdleConn(0)]
    /\ wlock = ""
    /\ observed = 0
    /\ committed_updates = <<>>
    /\ last_call = NoCall
    /\ pc = "idle"
    /\ query = <<>>
    /\ session_id = ""
    /\ state = EmptyDict
    /\ result = NoResult
    /\ path = <<>>
    /\ chunks = <<>>
    /\ completions = <<>>
    /\ needs_routing = FALSE
    /\ vin = ValIdle
    /\ vout = ValIdle

TxnFrame == UNCHANGED <<pc, query, session_id, state, result, path, chunks, completions, needs_routing, valvars, last_call>>

\* a caller enters add_conversation_turn or update: conn = self._get_conn()
TxnCall ==
    \E p \in Procs :
        /\ conn[p].op = "idle"
        /\ conn[p].calls < MaxCalls
        /\ \/ conn' = [conn EXCEPT ![p] = [op |-> "add_conversation_turn", ip |-> 1, intxn |-> FALSE, calls |-> @.calls + 1,
                                           sid |-> "s1", role |-> "user", content |-> <<p, ToString(conn[p].calls + 1)>>,
                                           inserted |-> <<>>]]
           \/ \E kwargs \in TxnKwargs :
                conn' = [conn EXCEPT ![p] = [op |-> "update", ip |-> 1, intxn |-> FALSE, calls |-> @.calls + 1,
                                             sid |-> "s1", kwargs |-> kwargs, updated |-> <<>>]]
        /\ UNCHANGED <<sessions, turns, history_log, wlock, observed, committed_updates>>
        /\ TxnFrame

\* SELECT ... FROM sessions WHERE session_id = ?.  add_conversation_turn
\* returns None when the session is unknown and goes on when it is stored;
\* get_or_create returns the session when it is stored and goes on to create
\* when it is unknown
TxnSelect ==
    \E p \in Procs :
        /\ Stmt(p) \in {"SELECT_SESSION", "GET_SESSION"}
        /\ conn' = [conn EXCEPT ![p] = IF (conn[p].sid \in DOMAIN sessions) = (Stmt(p) = "SELECT_SESSION")
                                       THEN [@ EXCEPT !.ip = @ + 1] ELSE IdleConn(@.calls)]
        /\ UNCHANGED <<sessions, turns, history_log, wlock, observed, committed_updates>>
        /\ TxnFrame

\* an INSERT, UPDATE or DELETE: the first one of a connection begins its
\* transaction on the committed tables and takes the write lock
TxnWrite ==
    \E p \in Procs :
        LET c == conn[p]
            base_turns == IF c.intxn THEN c.p_turns ELSE turns
            base_sessions == IF c.intxn THEN c.p_sessions ELSE sessions
            began == [k \in DOMAIN c \cup {"p_turns", "p_sessions"} |->
                        IF k = "p_turns" THEN base_turns ELSE IF k = "p_sessions" THEN base_sessions
                        ELSE IF k = "intxn" THEN TRUE ELSE IF k = "ip" THEN c.ip + 1 ELSE c[k]]
        IN /\ Stmt(p) \in WriteStatements
           /\ c.intxn \/ wlock = ""
           /\ ~(Stmt(p) = "INSERT_SESSION" /\ c.sid \in DOMAIN base_sessions)
           /\ wlock' = p
           /\ conn' = [conn EXCEPT ![p] =
                CASE Stmt(p) = "INSERT_TURN" ->
                        [began EXCEPT !.p_turns = Append(@, [session_id |-> c.sid, role |-> c.role, content |-> c.content]),
                                      !.inserted = Append(@, [role |-> c.role, content |-> c.content])]
                  [] Stmt(p) = "UPDATE_LAST_ACTIVITY" -> began
                  [] Stmt(p) = "DELETE_OLD_TURNS" -> [began EXCEPT !.p_turns = TrimTurns(@, c.sid)]
                  [] Stmt(p) = "UPDATE_FIELDS" ->
                        [began EXCEPT !.p_sessions = store_update(@, c.sid, c.kwargs),
                                      !.updated = IF c.sid \in DOMAIN base_sessions THEN <<c.kwargs>> ELSE <<>>]
                  [] Stmt(p) = "INSERT_SESSION" -> [began EXCEPT !.p_sessions = store_create(@, c.sid)]
                  [] Stmt(p) = "DELETE_TURNS" -> [began EXCEPT !.p_turns = SelectSeq(@, LAMBDA t : t.session_id # c.sid)]
                  [] Stmt(p) = "DELETE_SESSION" -> [began EXCEPT !.p_sessions = [k \in DOMAIN @ \ {c.sid} |-> @[k]]]]
           /\ UNCHANGED <<sessions, turns, history_log, observed, committed_updates>>
           /\ TxnFrame

\* the write lock is held by another connection until the timeout expires:
\* the statement raises, the finally clause closes the connection
TxnBusy ==
    \E p \in Procs :
        /\ Stmt(p) \in WriteStatements
        /\ ~conn[p].intxn
        /\ wlock \notin {"", p}
        /\ conn' = [conn EXCEPT ![p] = IdleConn(@.calls)]
        /\ UNCHANGED <<sessions, turns, history_log, wlock, observed, committed_updates>>
        /\ TxnFrame

\* conn.commit()
TxnCommit ==
    \E p \in Procs :
        LET c == conn[p]
        IN /\ Stmt(p) = "COMMIT"
           /\ IF c.intxn
              THEN /\ turns' = c.p_turns
                   /\ sessions' = c.p_sessions
                   /\ wlock' = ""
                   /\ history_log' = IF c.op = "add_conversation_turn"
                                     THEN [history_log EXCEPT ![c.sid] = @ \o c.inserted] ELSE history_log
                   /\ committed_updates' = IF c.op = "update" THEN committed_updates \o c.updated ELSE committed_updates
              ELSE UNCHANGED <<turns, sessions, wlock, history_log, committed_updates>>
           /\ conn' = [conn EXCEPT ![p] =
                IF c.ip = Len(Program(c.op)) THEN IdleConn(c.calls)
                ELSE [k \in DOMAIN c \ {"p_turns", "p_sessions"} |->
                        IF k = "intxn" THEN FALSE ELSE IF k = "ip" THEN c.ip + 1
                        ELSE IF k = "inserted" THEN <<>> ELSE IF k = "updated" THEN <<>> ELSE c[k]]]
           /\ UNCHANGED observed
           /\ TxnFrame

\* return self.get(session_id): the caller sees the committed tables
TxnGet ==
    \E p \in Procs :
        /\ Stmt(p) = "GET"
        /\ observed' = Len(TurnsOf(turns, conn[p].sid))
        /\ conn' = [conn EXCEPT ![p] = IdleConn(@.calls)]
        /\ UNCHANGED <<sessions, turns, history_log, wlock, committed_updates>>
        /\ TxnFrame

\* INSERT INTO sessions with an id the table holds: the PRIMARY KEY
\* constraint fails, the statement raises sqlite3.IntegrityError, the finally
\* clause closes the connection and get_or_create raises to its caller
TxnConstraintFails ==
    \E p \in Procs :
        /\ Stmt(p) = "INSERT_SESSION"
        /\ wlock = ""
        /\ conn[p].sid \in DOMAIN sessions
        /\ conn' = [conn EXCEPT ![p] = IdleConn(@.calls)]
        /\ last_call' = [op |-> "get_or_create", sid |-> conn[p].sid, raised |-> "IntegrityError"]
        /\ UNCHANGED <<sessions, turns, history_log, wlock, observed, committed_updates>>
        /\ UNCHANGED <<pc, query, session_id, state, result, path, chunks, completions, needs_routing, valvars>>

\* a caller enters get_or_create, add_conversation_turn or delete on "s1"
LifeCall ==
    \E p \in Procs :
        /\ conn[p].op = "idle"
        /\ conn[p].calls < MaxCalls
        /\ \/ conn' = [conn EXCEPT ![p] = [op |-> "get_or_create", ip |-> 1, intxn |-> FALSE, calls |-> @.calls + 1, sid |-> "s1"]]
           \/ conn' = [conn EXCEPT ![p] = [op |-> "delete", ip |-> 1, intxn |-> FALSE, calls |-> @.calls + 1, sid |-> "s1"]]
           \/ conn' = [conn EXCEPT ![p] = [op |-> "add_conversation_turn", ip |-> 1, intxn |-> FALSE, calls |-> @.calls + 1,
                                           sid |-> "s1", role |-> "user", content |-> <<p, ToString(conn[p].calls + 1)>>,
                                           inserted |-> <<>>]]
        /\ UNCHANGED <<sessions, turns, history_log, wlock, observed, committed_updates>>
        /\ TxnFrame

\* nobody has seen "s1" yet; nobody is connected
InitLife ==
    /\ sessions = EmptyDict
    /\ turns = <<>>
    /\ history_log = [sid \in StoreIds |-> <<>>]
    /\ conn = [p \in Procs |-> IdleConn(0)]
    /\ wlock = ""
    /\ observed = 0
    /\ committed_updates = <<>>
    /\ last_call = NoCall
    /\ pc = "idle"
    /\ query = <<>>
    /\ session_id = ""
    /\ state = EmptyDict
    /\ result = NoResult
    /\ path = <<>>
    /\ chunks = <<>>
    /\ completions = <<>>
    /\ needs_routing = FALSE
    /\ vin = ValIdle
    /\ vout = ValIdle

NextLife ==
    \/ LifeCall
    \/ TxnSelect
    \/ TxnWrite
    \/ TxnBusy
    \/ TxnConstraintFails
    \/ TxnCommit
    \/ TxnGet

SpecLife == InitLife /\ [][NextLife]_vars

NextTxn ==
    \/ TxnCall
    \/ TxnSelect
    \/ TxnWrite
    \/ TxnBusy
    \/ TxnCommit
    \/ TxnGet

SpecTxn == InitTxn /\ [][NextTxn]_vars

(***************************************************************************)
(* Properties                                                              *)
(***************************************************************************)
Last(seq) == seq[Len(seq)]
Ran(node) == \E i \in DOMAIN path : path[i] = node

\* a text is shown in a response when it is non-empty and occurs in it
Shown(response, text) == text # <<>> /\ Contains(response, text)

\* trace' is trace with one entry appended
TraceAppended == Len(state'.trace) = Len(state.trace) + 1 /\ SubSeq(state'.trace, 1, Len(state.trace)) = state.trace

\* the fields of the shared state, other than keep, are the same in both states
FrameExcept(keep) == \A k \in DOMAIN state \ keep : state'[k] = state[k]

\* C1: on every run through the Billing node the text of the Billing Answer
\* is shown in the final response only if the Manager approved it; on
\* rejection the final response is the rejection's clarifying message and
\* the citations returned are empty.
C1_AnswerGatedByApproval ==
    Ran("billing") =>
        /\ Shown(state.final_response, Get(state.billing_response, "answer", <<>>))
            => Get(state.manager_result, "approved", FALSE)
        /\ (pc \in {"END", "returned"} /\ ~state.manager_result.approved)
            => /\ state.final_response = state.manager_result.clarifying_message
               /\ state.citations = <<>>
        /\ pc = "returned"
            => /\ result.final_response = state.final_response
               /\ result.citations = state.citations
               /\ result.approved = Some(state.manager_result.approved)

C1_Witness ==
    /\ pc = "returned"
    /\ Ran("billing")
    /\ result.approved = Some(FALSE)
    /\ state.billing_response.answer = A_137
    /\ state.billing_response.citations # <<>>
    /\ result.citations = <<>>
    /\ result.final_response = state.manager_result.clarifying_message

\* C2: with strict amount verification off the validator approves exactly
\* when the citation list is non-empty and top_score >= the threshold (a
\* score equal to the threshold is approved), whatever the answer.
C2_ApprovedIffCitedAndConfident ==
    (vout # ValIdle /\ ~vin.strict) =>
        (vout.is_valid <=> (vin.citations # <<>> /\ vin.top_score >= CONFIDENCE_THRESHOLD))

C2_Witness ==
    /\ vout # ValIdle
    /\ ~vin.strict
    /\ vin.top_score = CONFIDENCE_THRESHOLD
    /\ vin.citations = <<CitPlain>>
    /\ vin.answer = A_50
    /\ vout.is_valid

\* C3: the rules run in the order citations-present, confidence-threshold,
\* amounts-verified and stop at the first failure; with zero citations the
\* rejection is tagged citations_present whatever the score and the answer.
C3_FirstFailureWins ==
    vout # ValIdle =>
        /\ vin.citations = <<>> => (~vout.is_valid /\ vout.details.check = "citations_present")
        /\ (vin.citations # <<>> /\ vin.top_score < CONFIDENCE_THRESHOLD)
            => (~vout.is_valid /\ vout.details.check = "confidence_threshold")
        /\ (~vout.is_valid /\ vout.details.check = "amounts_verified")
            => (vin.strict /\ vin.citations # <<>> /\ vin.top_score >= CONFIDENCE_THRESHOLD)

C3_Witness ==
    /\ vout # ValIdle
    /\ vin.citations = <<>>
    /\ vin.top_score < CONFIDENCE_THRESHOLD
    /\ vin.strict
    /\ vin.answer = A_137
    /\ ~vout.is_valid
    /\ vout.details.check = "citations_present"

\* C4: every citation of every Billing Answer names, by (doc_id, chunk_id),
\* a chunk retrieved in the same call, whatever the completion returns.
C4_CitationsFromRetrievedChunks ==
    Ran("billing") =>
        \A i \in DOMAIN state.billing_response.citations :
            \E j \in DOMAIN chunks :
                /\ chunks[j].doc_id = state.billing_response.citations[i].doc_id
                /\ chunks[j].chunk_id = state.billing_response.citations[i].chunk_id

\* C5: a run_query that returns has a non-empty final response.
C5_ReturnsNonEmptyResponse ==
    pc = "returned" => result.final_response # <<>>

\* C6: when the Sales node flags its draft for rerouting, the next node is Billing.
C6_FlaggedSalesGoesToBilling ==
    (path # <<>> /\ Last(path) = "sales" /\ needs_routing) => pc = "billing"

\* C7: the Router is the first node of every run and runs once; the node
\* after it is Billing for the two billing intents and Sales for every
\* other intent.
C7_RouterFirstThenByIntent ==
    /\ pc = "router" => path = <<>>
    /\ \A i \in DOMAIN path : path[i] = "router" <=> i = 1
    /\ LET successor == IF state.intent \in BillingIntents THEN "billing" ELSE "sales"
       IN /\ (Len(path) = 1 /\ pc # "raised") => pc = successor
          /\ Len(path) >= 2 => path[2] = successor

C7_Witness ==
    /\ Len(path) >= 2
    /\ state.intent = "billing_general"
    /\ path[2] = "billing"

C9_OnlyFormatterWritesFinalResponse ==
    [][Get(state', "final_response", <<>>) # Get(state, "final_response", <<>>) => pc = "format_response"]_vars

\* C9 as amended: final_response is written by the Sales node (its direct
\* answer) and by the Formatter node only; Router, Billing and Manager
\* never assign it.
C9_OnlySalesOrFormatterWritesFinalResponse ==
    [][Get(state', "final_response", <<>>) # Get(state, "final_response", <<>>) => pc \in {"sales", "format_response"}]_vars

C9_Witness ==
    /\ pc = "END"
    /\ path = <<"router", "sales">>
    /\ state.final_response # <<>>

\* C10 as stated: Billing changes only billing_response and appends to
\* trace, Manager changes only manager_result and appends to trace, and
\* citations is changed by the Formatter node only.
C10_NodesChangeOnlyOwnedFields ==
    [][/\ (pc = "billing" /\ pc' = "manager") => (FrameExcept({"billing_response", "trace"}) /\ TraceAppended)
       /\ (pc = "manager" /\ pc' = "format_response") => (FrameExcept({"manager_result", "trace"}) /\ TraceAppended)
       /\ Get(state', "citations", <<>>) # Get(state, "citations", <<>>) => pc = "format_response"]_vars

\* C10 as amended: Billing changes only billing_response and appends to
\* trace; Manager changes only manager_result and, when it approves,
\* citations (set to the Billing Answer's citations) and appends to trace;
\* citations is changed by the Manager and Formatter nodes only.
C10_ManagerAlsoWritesCitations ==
    [][/\ (pc = "billing" /\ pc' = "manager") => (FrameExcept({"billing_response", "trace"}) /\ TraceAppended)
       /\ (pc = "manager" /\ pc' = "format_response")
            => /\ FrameExcept({"manager_result", "trace", "citations"})
               /\ TraceAppended
               /\ state'.citations = IF state'.manager_result.approved THEN state.billing_response.citations ELSE state.citations
       /\ Get(state', "citations", <<>>) # Get(state, "citations", <<>>) => pc \in {"manager", "format_response"}]_vars

C10_Witness ==
    /\ pc = "format_response"
    /\ state.manager_result.approved
    /\ state.citations # <<>>
    /\ state.citations = state.billing_response.citations

\* C11: the intent field is assigned by the Router node only, once per run
\* (the Router runs once, first), and keeps the Router's value in every
\* later state of the run, also when the Sales node classifies the query
\* again and gets another label.
C11_IntentAssignedOnceByRouter ==
    [][/\ Get(state', "intent", "") # Get(state, "intent", "") => (pc = "router" /\ path = <<>>)
       /\ pc \in {"sales", "billing", "manager", "format_response", "END"}
            => (state'.intent = state.intent /\ state.intent # "")]_vars

C11_Witness ==
    /\ pc = "returned"
    /\ path = <<"router", "sales">>
    /\ needs_routing
    /\ state.intent = "sales_general"

\* C12: the Manager node leaves billing_response as it found it (and so does
\* every later step); when it approves, the answer and the citations of the
\* validation result are those of the Billing Answer, and the citations
\* run_query returns for an approved answer are the Billing Answer's.
C12_ValidatorKeepsBillingAnswer ==
    [][/\ pc \in {"manager", "format_response", "END"} => state'.billing_response = state.billing_response
       /\ (pc = "manager" /\ pc' = "format_response" /\ state'.manager_result.approved)
            => /\ state'.manager_result.answer = state.billing_response.answer
               /\ state'.manager_result.citations = state.billing_response.citations
       /\ (pc = "END" /\ pc' = "returned" /\ Get(state.manager_result, "approved", FALSE))
            => result'.citations = state.billing_response.citations]_vars

C12_Witness ==
    /\ pc = "returned"
    /\ result.approved = Some(TRUE)
    /\ Len(state.billing_response.citations) = 2
    /\ result.citations = state.billing_response.citations
    /\ state.manager_result.answer = state.billing_response.answer

\* a turn of the table as the history shows it
Shows(t) == [role |-> t.role, content |-> t.content]
StoredHistory(tt, sid) == [i \in DOMAIN TurnsOf(tt, sid) |-> Shows(TurnsOf(tt, sid)[i])]
EntityFields == {"account_id", "customer_name", "billing_period", "current_topic"}

\* C13: after any sequence of add_conversation_turn calls the turns stored
\* for a session, and the history get and add_conversation_turn return, are
\* the last 10 turns inserted, in insertion order: never more than 10, the
\* oldest evicted first.
C13_HistoryIsLastTenInserted ==
    /\ \A sid \in StoreIds :
        /\ Len(TurnsOf(turns, sid)) <= MAX_HISTORY
        /\ StoredHistory(turns, sid) = LastN(history_log[sid], MAX_HISTORY)
        /\ sid \in DOMAIN sessions
            => store_get(sessions, turns, sid)[1].conversation_history = LastN(history_log[sid], MAX_HISTORY)
    /\ (last_call.op = "add_conversation_turn" /\ last_call.value # None)
        => last_call.value[1].conversation_history = LastN(history_log[last_call.sid], MAX_HISTORY)

C13_Witness ==
    /\ last_call.op = "add_conversation_turn"
    /\ last_call.sid = "s1"
    /\ Len(history_log["s1"]) = MAX_HISTORY + 2
    /\ Len(last_call.value[1].conversation_history) = MAX_HISTORY
    /\ last_call.value[1].conversation_history[1] = NthTurn(3)
    /\ last_call.value[1].conversation_history[MAX_HISTORY] = NthTurn(MAX_HISTORY + 2)

\* C15: extract_and_update_session on an existing session sets each entity
\* field the text yields a value for to that value and leaves every other
\* field of the session as it was: a set field is never cleared by a text
\* that does not mention it.
C15_EntityFieldsSticky ==
    [][(last_call'.op = "extract_and_update_session" /\ last_call' # last_call /\ last_call'.sid \in DOMAIN sessions)
        => LET sid == last_call'.sid
               found(f) == IF f = "current_topic" THEN last_call'.value.topic ELSE last_call'.value[f]
           IN /\ sid \in DOMAIN sessions'
              /\ \A f \in EntityFields :
                    sessions'[sid][f] = IF found(f) # None THEN found(f) ELSE sessions[sid][f]
              /\ \A f \in DOMAIN sessions[sid] \ EntityFields : sessions'[sid][f] = sessions[sid][f]]_vars

C15_Witness ==
    /\ last_call.op = "extract_and_update_session"
    /\ last_call.text = <<"use", "ACC-789456123">>
    /\ "s1" \in DOMAIN sessions
    /\ last_call.sid = "s1"
    /\ sessions["s1"].account_id = Some("ACC-789456123")
    /\ sessions["s1"].billing_period = Some(<<"January", "bill">>)
    /\ sessions["s1"].current_topic = Some("plans")

\* C16: get_or_create on an unseen id stores one new session (the number of
\* sessions grows by one, the others are untouched) and returns it; on an
\* id that is stored it changes nothing and returns the stored session with
\* its fields and history.  So a second call right after the creating one
\* returns the session the first created.
C16_GetOrCreateIdempotent ==
    [][(last_call'.op = "get_or_create" /\ last_call' # last_call)
        => LET sid == last_call'.sid
           IN /\ turns' = turns
              /\ IF sid \in DOMAIN sessions
                 THEN /\ sessions' = sessions
                      /\ last_call'.value = store_get(sessions, turns, sid)
                 ELSE /\ DOMAIN sessions' = DOMAIN sessions \cup {sid}
                      /\ Cardinality(DOMAIN sessions') = Cardinality(DOMAIN sessions) + 1
                      /\ \A o \in DOMAIN sessions : sessions'[o] = sessions[o]
                      /\ last_call'.value = Some(NewSessionData(sid))
              /\ last_call'.after_create
                    => /\ sessions' = sessions
                       /\ last_call'.value = last_call.value
                       /\ last_call'.value[1].session_id = sid]_vars

C16_Witness ==
    /\ last_call.op = "get_or_create"
    /\ last_call.after_create
    /\ ~last_call.created
    /\ last_call.value = Some(NewSessionData(last_call.sid))
    /\ DOMAIN sessions = {last_call.sid}

\* C17: when the session of a running query is not in the store, the update
\* and add_conversation_turn calls of the run return None and leave the
\* sessions and the turns as they are (no session, no turn is created), and
\* the run goes on as without context: the Router keeps the session context
\* it was given and run_query returns the workflow's final response.
C17_MissingSessionIsNotFatal ==
    [][(session_id # "" /\ session_id \notin DOMAIN sessions /\ pc \in {"router", "END"})
        => /\ sessions' = sessions
           /\ turns' = turns
           /\ session_id \notin DOMAIN sessions'
           /\ pc = "router"
                => /\ store_update_result(sessions, turns, session_id, [current_topic |-> Some("plans")]) = None
                   /\ pc' # "raised" => (pc' \in {"sales", "billing"} /\ state'.session_context = state.session_context)
           /\ pc = "END"
                => /\ store_add_conversation_turn_result(sessions, turns, session_id, "assistant", state.final_response) = None
                   /\ store_update_result(sessions, turns, session_id, [last_query |-> Some(query)]) = None
                   /\ pc' = "returned"
                   /\ result'.final_response = state.final_response]_vars

C17_Witness ==
    /\ pc = "returned"
    /\ session_id = "s1"
    /\ "s1" \notin DOMAIN sessions
    /\ turns = <<>>
    /\ path = <<"router", "billing", "manager", "format_response">>
    /\ result.final_response # <<>>

\* C18: delete(id) returns whether the session was stored; afterwards the
\* session is absent and none of its turns remains, every other session and
\* its turns are as before; and no other call removes a session.
C18_OnlyDeleteRemoves ==
    [][/\ (\E sid \in DOMAIN sessions : sid \notin DOMAIN sessions') => (last_call'.op = "delete" /\ last_call' # last_call)
       /\ (last_call'.op = "delete" /\ last_call' # last_call)
            => LET sid == last_call'.sid
               IN /\ last_call'.deleted = (sid \in DOMAIN sessions)
                  /\ DOMAIN sessions' = DOMAIN sessions \ {sid}
                  /\ store_get(sessions', turns', sid) = None
                  /\ TurnsOf(turns', sid) = <<>>
                  /\ \A o \in DOMAIN sessions \ {sid} :
                        /\ sessions'[o] = sessions[o]
                        /\ TurnsOf(turns', o) = TurnsOf(turns, o)]_vars

C18_Witness ==
    /\ last_call = [op |-> "delete", sid |-> "s1", deleted |-> TRUE]
    /\ DOMAIN sessions = {"s2"}
    /\ TurnsOf(turns, "s2") # <<>>
    /\ sessions["s2"].customer_name = Some("Dileep")

\* the row that results from applying the committed updates, in commit order
RECURSIVE ApplyUpdates(_, _)
ApplyUpdates(row, updates) ==
    IF updates = <<>> THEN row
    ELSE ApplyUpdates([k \in DOMAIN row |-> IF k \in DOMAIN Head(updates) THEN Head(updates)[k] ELSE row[k]], Tail(updates))

\* C14: under every interleaving of concurrent add_conversation_turn and
\* update calls on one session, the committed table never holds more than
\* 10 turns of the session (so no caller ever reads more), it holds exactly
\* the last 10 turns committed, in commit order, and the session row shows
\* every committed field update.
C14_InsertAndTrimAtomic ==
    /\ Len(TurnsOf(turns, "s1")) <= MAX_HISTORY
    /\ observed <= MAX_HISTORY
    /\ StoredHistory(turns, "s1") = LastN(history_log["s1"], MAX_HISTORY)
    /\ sessions["s1"] = ApplyUpdates(NewRow("s1"), committed_updates)
    /\ \A p \in Procs : wlock = p <=> conn[p].intxn

C14_Witness ==
    /\ wlock = "p1"
    /\ Stmt("p1") = "UPDATE_LAST_ACTIVITY"
    /\ Len(TurnsOf(conn["p1"].p_turns, "s1")) = MAX_HISTORY + 1
    /\ Stmt("p2") = "UPDATE_FIELDS"
    /\ Len(TurnsOf(turns, "s1")) = MAX_HISTORY
    /\ Len(history_log["s1"]) = MAX_HISTORY + 1
    /\ Len(committed_updates) = 1

\* C19: when retrieval returns no chunk, process_query returns the fixed
\* not-found answer, with no citation and top_score 0, and issues no
\* completion request.
C19_NotFoundWithoutCompletion ==
    (Ran("billing") /\ chunks = <<>>)
        => /\ state.billing_response = create_not_found_response
           /\ state.billing_response.citations = <<>>
           /\ state.billing_response.top_score = 0
           /\ completions = <<>>

C19_Witness ==
    /\ pc = "returned"
    /\ Ran("billing")
    /\ chunks = <<>>
    /\ completions = <<>>
    /\ state.billing_response.answer = <<"I couldn't find specific information about your account in our records.">>
    /\ result.approved = Some(FALSE)

\* a parsed completion that is a record with an answer, a list of citations
\* each with doc_id, chunk_id and quote, and a confidence note
WellFormedRecord(j) ==
    /\ j.t = "dict"
    /\ {"answer", "citations", "confidence_note"} \subseteq DOMAIN j.v
    /\ j.v.citations.t = "list"
    /\ \A i \in DOMAIN j.v.citations.v :
        /\ j.v.citations.v[i].t = "dict"
        /\ {"doc_id", "chunk_id", "quote"} \subseteq DOMAIN j.v.citations.v[i].v

\* C20: when the completion text parses, after the code fence is stripped,
\* into a record with an answer, a list of well-formed citations and a
\* confidence note, the Billing Answer carries the record's answer and
\* citations.
C20_WellFormedRecordIsKept ==
    (Ran("billing") /\ completions # <<>>)
        => LET parsed == parse_json_response(completions[1])
           IN (parsed.ok /\ WellFormedRecord(parsed.value))
                => /\ state.billing_response.answer = parsed.value.v.answer
                   /\ state.billing_response.citations = Plain(parsed.value).citations

\* the completion text of the Billing call parses to nothing the structure
\* check accepts: the fallback case of _generate_response
FallbackCase(response_text) ==
    LET parsed == parse_json_response(response_text)
    IN \/ ~parsed.ok
       \/ validate_billing_response_structure(parsed.value) = "invalid"

\* C21: whatever the completion service returns to a Billing call that
\* retrieved at least one chunk, the call does not raise and the Billing
\* Answer has an answer, a citation list, a top_score and a confidence note;
\* in the fallback case the answer is the raw completion text and the
\* citations are made from the first 3 retrieved chunks at most, in
\* retrieval order.
C21_BillingAnswerForEveryCompletion ==
    /\ completions # <<>> => pc # "raised"
    /\ (Ran("billing") /\ completions # <<>>)
        => /\ {"answer", "citations", "top_score", "confidence_note"} \subseteq DOMAIN state.billing_response
           /\ FallbackCase(completions[1])
                => /\ state.billing_response.answer = completions[1]
                   /\ state.billing_response.citations
                        = [i \in 1..(IF Len(chunks) < 3 THEN Len(chunks) ELSE 3) |->
                              create_citations_from_chunks(chunks)[i]]

\* C22: a node that is left without having completed was left by an error:
\* run_query is then over with the error raised and no result record, the
\* workflow state as the node found it.  A result with approved = false, and
\* a clarifying-questions response, come only from the Manager's validation
\* of a Billing Answer, never from a failed call.
C22_FailureIsRaisedNotRejected ==
    /\ [](pc = "raised" => result = NoResult)
    /\ [](pc = "returned" /\ (result.approved = Some(FALSE) \/ Shown(result.final_response, <<"I need a bit more information to answer your question accurately:">>))
            => /\ Ran("billing") /\ Ran("manager")
               /\ state.manager_result = validate_response(state.billing_response).result
               /\ result.approved = Some(FALSE))
    /\ [][(pc \in {"router", "sales", "billing"} /\ pc' # pc /\ path' = path)
            => (pc' = "raised" /\ result' = NoResult /\ state' = state)]_vars

C22_Witness ==
    /\ pc = "raised"
    /\ path = <<"router">>
    /\ state.intent = "billing_general"
    /\ completions = <<>>
    /\ turns # <<>>
    /\ result = NoResult

\* the clarifying message of a rejection for absent citations
NoCitationsMessage ==
    <<"I need a bit more information to answer your question accurately:", "\n",
      "(bullet) ", "Can you provide your account number or customer ID?", "\n",
      "(bullet) ", "What specific billing period are you asking about?", "\n",
      "(bullet) ", "Can you provide more details about your question?">>

\* C23: when the Router classified the query as a billing intent and the
\* Billing call retrieved no chunk, the nodes run are Router, Billing,
\* Manager, Formatter in this order, the Manager's result is a rejection whose
\* details name the check citations_present, the Formatter's final response
\* is the clarifying message, and run_query returns it with approved = false.
C23_NoChunksIsRejectedForCitations ==
    (Ran("billing") /\ chunks = <<>> /\ state.intent \in BillingIntents)
        => /\ \E n \in 2..4 : path = SubSeq(<<"router", "billing", "manager", "format_response">>, 1, n)
           /\ Ran("manager")
                => /\ state.manager_result.approved = FALSE
                   /\ state.manager_result.validation_details.check = "citations_present"
           /\ Ran("format_response") => state.final_response = NoCitationsMessage
           /\ pc = "returned"
                => /\ path = <<"router", "billing", "manager", "format_response">>
                   /\ result.approved = Some(FALSE)
                   /\ result.final_response = NoCitationsMessage

C23_Witness ==
    /\ pc = "returned"
    /\ chunks = <<>>
    /\ state.intent = "billing_account_specific"
    /\ path = <<"router", "billing", "manager", "format_response">>
    /\ result.approved = Some(FALSE)
    /\ result.final_response = NoCitationsMessage
    /\ result.citations = <<>>

\* C24: when the Router classified the query as general sales and the Sales
\* node does not flag rerouting, the Sales node publishes its draft as the
\* final response and the workflow ends there: Router and Sales are the only
\* nodes that ran, and run_query returns the draft with no citations and
\* approved unknown.
C24_UnflaggedSalesAnswersDirectly ==
    /\ [][(pc = "sales" /\ Ran("sales")' /\ ~needs_routing' /\ state.intent = "sales_general")
            => /\ pc' = "END"
               /\ \E draft \in SalesDrafts, label \in ClassifierOutputs :
                    /\ ~check_needs_billing_routing(draft, label)
                    /\ state'.final_response = draft
                    /\ state' = sales_node(state, draft, label)]_vars
    /\ []((Ran("sales") /\ ~needs_routing /\ state.intent = "sales_general")
            => /\ path = <<"router", "sales">>
               /\ pc \in {"END", "returned"}
               /\ pc = "returned"
                    => /\ result.final_response = state.final_response
                       /\ result.citations = <<>>
                       /\ result.approved = None)

C24_Witness ==
    /\ pc = "returned"
    /\ state.intent = "sales_general"
    /\ ~needs_routing
    /\ path = <<"router", "sales">>
    /\ result.final_response = <<"We", "offer", "Basic", "and", "Pro", "plans">>
    /\ result.citations = <<>>
    /\ result.approved = None

\* the text of a source list: after the heading one line per citation, from
\* the i-th on, each on a line of its own and carrying its number, its
\* document and the head of its quote
RECURSIVE SourceList(_, _)
SourceList(citations, i) ==
    IF i > Len(citations) THEN <<>>
    ELSE <<"\n", "  [", ToString(i), "] ", citations[i].doc_id, ": \"">>
         \o Take(citations[i].quote, QUOTE_SLICE) \o <<"...\"">>
         \o SourceList(citations, i + 1)

\* C25: when the validation result is approved, the Formatter's final
\* response is the answer, then the heading of the source list, then one
\* line per citation of the result, numbered from 1 in citation order; an
\* approved result has at least one citation, so the list is never missing.
C25_ApprovedResponseListsSources ==
    (Ran("format_response") /\ state.manager_result.approved)
        => /\ Len(state.manager_result.citations) >= 1
           /\ state.final_response
                = state.manager_result.answer \o <<"\n", "\n\nSources:">>
                  \o SourceList(state.manager_result.citations, 1)

C25_Witness ==
    /\ Ran("format_response")
    /\ state.manager_result.approved
    /\ Len(state.manager_result.citations) = 2
    /\ Shown(state.final_response, <<"\n", "  [", "2", "] ", "DOC_9_UNKNOWN", ": \"">>)

\* C26: in a run with a session id whose session is stored when the Router
\* runs, the Router step writes every entity found in the query into the
\* session row (fields the query does not state stay), puts the context text
\* of the updated session into the workflow state, and only then branches on
\* the intent; no later step changes the context text, so the Billing node
\* reads a context that names the account, period and topic of the query.
C26_RouterMergesBeforeBranching ==
    /\ [][(pc = "router" /\ Ran("router")' /\ session_id # "" /\ session_id \in DOMAIN sessions)
            => LET e == extract(query)
                   row == sessions'[session_id]
                   ctx == state'.session_context
               IN /\ IF e.account_id # None
                     THEN row.account_id = e.account_id /\ Shown(ctx, <<"Account: ", e.account_id[1]>>)
                     ELSE row.account_id = sessions[session_id].account_id
                  /\ IF e.billing_period # None
                     THEN row.billing_period = e.billing_period /\ Shown(ctx, <<"Discussing: ">> \o e.billing_period[1])
                     ELSE row.billing_period = sessions[session_id].billing_period
                  /\ IF e.topic # None
                     THEN row.current_topic = e.topic /\ Shown(ctx, <<"Topic: ", e.topic[1]>>)
                     ELSE row.current_topic = sessions[session_id].current_topic
                  /\ ctx = get_context_summary(row_to_session(row, turns))
                  /\ pc' = route_after_router(state')]_vars
    /\ [][(pc \in {"sales", "billing", "manager", "format_response", "END"})
            => state'.session_context = state.session_context]_vars

C26_Witness ==
    /\ Ran("billing")
    /\ session_id = "s1"
    /\ query = Q_ACCT
    /\ Shown(state.session_context, <<"Account: ", "ACC-DEMO-001">>)
    /\ Shown(state.session_context, <<"Discussing: ", "January", "bill">>)

\* the spellings of a name that a completion text may hold
Spellings(name) ==
    IF name = "billing_account_specific"
    THEN {"billing_account_specific", "Billing_Account_Specific", "\"billing_account_specific\""}
    ELSE {"billing_general", "BILLING_GENERAL", "billing_general."}
Names(label, name) == \E i \in DOMAIN label : label[i] \in Spellings(name)

\* C27: for every completion text classify_query returns one of the three
\* intents; for a text that names neither billing intent it returns
\* sales_general, and the Router's edge then leads to Sales: only a text
\* that names a billing intent leads to Billing.
C27_UnrecognizedLabelIsSales ==
    vout # ValIdle
        => /\ vout.intent \in {"billing_account_specific", "billing_general", "sales_general"}
           /\ (~Names(vin.label, "billing_account_specific") /\ ~Names(vin.label, "billing_general"))
                => (vout.intent = "sales_general" /\ vout.next = "sales")
           /\ vout.next = "billing"
                => (Names(vin.label, "billing_account_specific") \/ Names(vin.label, "billing_general"))

C27_Witness ==
    /\ vin = [label |-> <<"unknown", "billing">>]
    /\ vout = [intent |-> "sales_general", next |-> "sales"]

\* the text of a clarifying message that asks the questions qs from the i-th on
RECURSIVE Bullets(_, _)
Bullets(qs, i) ==
    IF i > Len(qs) THEN <<>>
    ELSE (IF i > 1 THEN <<"\n">> ELSE <<>>) \o <<"(bullet) ">> \o qs[i] \o Bullets(qs, i + 1)

\* C28: every rejected response of the Manager carries a non-empty list of
\* clarifying questions and the clarifying message that asks them one per
\* line; the check named in the validation details decides the questions:
\* citations_present asks for account, period and details,
\* confidence_threshold asks the questions the validation supplied,
\* amounts_verified names the amounts that could not be verified.
C28_RejectionAsksByFailedCheck ==
    (result # NoResult /\ ~result.approved)
        => LET qs == result.clarifying_questions
               details == result.validation_details
           IN /\ qs # <<>>
              /\ result.clarifying_message
                    = <<"I need a bit more information to answer your question accurately:", "\n">> \o Bullets(qs, 1)
              /\ details.check \in {"citations_present", "confidence_threshold", "amounts_verified"}
              /\ details.check = "citations_present"
                    => qs = <<<<"Can you provide your account number or customer ID?">>,
                              <<"What specific billing period are you asking about?">>,
                              <<"Can you provide more details about your question?">>>>
              /\ details.check = "confidence_threshold" => qs = details.clarifying_questions
              /\ details.check = "amounts_verified"
                    => /\ Len(qs) = 3
                       /\ qs[1] = <<"I found amounts ">> \o details.unverified_amounts
                                  \o <<" in the answer but couldn't verify them.">>
                       /\ details.unverified_amounts # <<>>

C28_Witness ==
    /\ result # NoResult
    /\ ~result.approved
    /\ result.validation_details.check = "amounts_verified"
    /\ result.clarifying_questions[1] = <<"I found amounts ", "$137.14", " in the answer but couldn't verify them.">>

\* the currency literal a token holds: the amount without the punctuation
\* that follows it
Amount(tok) == IF tok = "$50," THEN "$50" ELSE tok
AmountsOf(text) == {Amount(text[i]) : i \in {j \in DOMAIN text : IsDollar(text[j])}}

\* C29: with strict mode on, an answer with at least one citation and a score
\* at or above the threshold is rejected exactly when a currency literal of
\* the answer is in no citation quote, the details then name the check
\* amounts_verified and list exactly the unmatched literals; with strict
\* mode off such an answer is never rejected.
C29_StrictRejectsExactlyUnmatchedAmounts ==
    (vout # ValIdle /\ vin.citations # <<>> /\ vin.top_score >= CONFIDENCE_THRESHOLD)
        => LET quoted == UNION {AmountsOf(vin.citations[i].quote) : i \in DOMAIN vin.citations}
               unmatched == AmountsOf(vin.answer) \ quoted
           IN IF vin.strict
              THEN /\ ~vout.is_valid <=> unmatched # {}
                   /\ ~vout.is_valid
                        => /\ vout.details.check = "amounts_verified"
                           /\ Range(vout.details.unverified_amounts) = unmatched
              ELSE vout.is_valid

\* C30: a run executes at most five nodes and no node twice, and it stops
\* short of the terminal state only when an external call failed: every step
\* that ends run_query with an error is the failure of a classification,
\* completion, embedding or index call.
C30_RunsReachTerminalState ==
    /\ [](/\ Len(path) <= 5
          /\ \A i, j \in DOMAIN path : i # j => path[i] # path[j])
    /\ [][(pc # "raised" /\ pc' = "raised") => (RouterRaises \/ ExternalCallRaises)]_vars

\* the words of a quote: the mark of a cut ("...", which the code attaches to
\* the last word) is no word
Words(quote) ==
    IF quote # <<>> /\ quote[Len(quote)] = "..." THEN SubSeq(quote, 1, Len(quote) - 1) ELSE quote

\* C31: every citation of every Billing Answer has a quote of at most 20
\* words; a citation made from a chunk (the fallback case) quotes the first
\* 20 words of the chunk's text, the whole text when it is shorter.
C31_QuotesAtMostTwentyWords ==
    Ran("billing")
        => /\ \A i \in DOMAIN state.billing_response.citations :
                Len(Words(state.billing_response.citations[i].quote)) <= MAX_QUOTE_WORDS
           /\ (completions # <<>> /\ FallbackCase(completions[1]))
                => \A i \in DOMAIN state.billing_response.citations :
                     Words(state.billing_response.citations[i].quote)
                        = SubSeq(chunks[i].text, 1, IF Len(chunks[i].text) < MAX_QUOTE_WORDS
                                                    THEN Len(chunks[i].text) ELSE MAX_QUOTE_WORDS)

\* the keyword-overlap score of a topic: how many of its keywords occur in
\* the lower-cased message
TopicScore(text, t) ==
    Cardinality({kw \in TOPIC_KEYWORDS[t] :
                    \E i \in DOMAIN text : kw \in KeywordsInside(Lower(text[i]))})

\* C32: topic detection returns no topic exactly when every topic scores
\* zero; otherwise it returns a topic whose score is the highest, and every
\* topic defined before it in the keyword table (billing, plans, dispute,
\* late_fee, support) scores strictly less.
C32_TopicIsFirstWithHighestScore ==
    vout # ValIdle
        => LET table == <<"billing", "plans", "dispute", "late_fee", "support">>
           IN /\ vout.topic = None <=> \A k \in DOMAIN table : TopicScore(vin.text, table[k]) = 0
              /\ vout.topic # None
                    => \E k \in DOMAIN table :
                         /\ vout.topic = Some(table[k])
                         /\ (\A j \in DOMAIN table : TopicScore(vin.text, table[j]) <= TopicScore(vin.text, table[k]))
                         /\ (\A e \in 1..(k - 1) : TopicScore(vin.text, table[e]) < TopicScore(vin.text, table[k]))

C32_Witness ==
    /\ vin = [text |-> <<"overdue", "hello">>]
    /\ vout = [topic |-> Some("billing")]

\* C33: when concurrent callers invoke get_or_create with an id nobody has
\* seen, the id is created once and no call fails: no get_or_create raises.
C33_ConcurrentGetOrCreateNeverFails ==
    /\ Cardinality(DOMAIN sessions) <= 1
    /\ ~(last_call.op = "get_or_create" /\ "raised" \in DOMAIN last_call)

\* C34: under every interleaving of get_or_create, add_conversation_turn and
\* delete on one id, every turn of the committed table belongs to a session
\* of the committed table; so a session created after a delete has no turns.
C34_EveryTurnHasItsSession ==
    \A i \in DOMAIN turns : turns[i].session_id \in DOMAIN sessions

\* C35: an update changes the fields it names and no other.  Under every
\* interleaving of concurrent callers, the commit of an update leaves in the
\* session row the value passed for each field it names and, for every other
\* field, the value the row held just before (so what another caller's
\* update committed stays); no other step changes the row; and the update of
\* last_query / last_response that ends a run changes no entity field.
C35_UpdateChangesOnlyNamedFields ==
    [][/\ \A p \in Procs :
            (Stmt(p) = "COMMIT" /\ conn[p].op = "update" /\ conn[p].intxn /\ conn'[p] # conn[p])
                => /\ \A k \in DOMAIN sessions["s1"] :
                        sessions'["s1"][k] = IF k \in DOMAIN conn[p].kwargs THEN conn[p].kwargs[k] ELSE sessions["s1"][k]
                   /\ (DOMAIN conn[p].kwargs = {"last_query", "last_response"})
                        => \A e \in EntityFields : sessions'["s1"][e] = sessions["s1"][e]
       /\ (\A q \in Procs : ~(Stmt(q) = "COMMIT" /\ conn[q].op = "update" /\ conn'[q] # conn[q]))
            => sessions' = sessions]_vars

\* two callers' updates of different fields have both committed, the entity
\* update first, and the row shows both
C35_Witness ==
    /\ committed_updates = <<[customer_name |-> Some("Dileep")], [last_query |-> Some(Q_OWE), last_response |-> Some(A_50)]>>
    /\ conn["p1"].calls = 1
    /\ conn["p2"].calls = 1
    /\ sessions["s1"].customer_name = Some("Dileep")
    /\ sessions["s1"].last_query = Some(Q_OWE)
    /\ sessions["s1"].last_response = Some(A_50)
    /\ sessions["s1"].account_id = None

\* C36: the top_score of a Billing Answer built on at least one chunk is the
\* score of the first retrieved match, whatever the completion contains (a
\* top_score of its own included); and it is the score the Manager compares
\* with the threshold: the verdict records it, and an answer with citations is
\* approved exactly when it reaches the threshold.
C36_TopScoreIsFirstMatchScore ==
    (Ran("billing") /\ chunks # <<>>)
        => /\ state.billing_response.top_score = chunks[1].score
           /\ Ran("manager")
                => /\ state.manager_result.approved
                        => state.manager_result.confidence = chunks[1].score
                   /\ ~state.manager_result.approved
                        => state.manager_result.original_score = chunks[1].score
                   /\ state.billing_response.citations # <<>>
                        => (state.manager_result.approved <=> chunks[1].score >= CONFIDENCE_THRESHOLD)

\* the completion claims a top_score of 99, the first match scores below the
\* threshold, and the Manager has rejected the answer for its confidence
C36_Witness ==
    /\ Ran("manager")
    /\ completions = <<<<"J_WITH_SCORE">>>>
    /\ chunks # <<>>
    /\ chunks[1].score = CONFIDENCE_THRESHOLD - 1
    /\ state.billing_response.top_score = CONFIDENCE_THRESHOLD - 1
    /\ state.billing_response.citations # <<>>
    /\ ~state.manager_result.approved
    /\ state.manager_result.validation_details.check = "confidence_threshold"
    /\ state.manager_result.original_score = CONFIDENCE_THRESHOLD - 1

\* C37: a run_query with a session id, whose session stays in the store,
\* appends exactly two turns to it: before the workflow starts the user turn
\* with the query, after it ends the assistant turn with the final response
\* (together with the last_query / last_response update); no step between
\* the two writes a turn, last_query or last_response, so a run that raises
\* leaves the user turn as the session's last turn and writes neither the
\* assistant turn nor the update.
C37_TwoTurnsPerCompletedRun ==
    [][(session_id # "")
        => LET user_turn == [session_id |-> session_id, role |-> "user", content |-> query]
               before == TurnsOf(turns, session_id)
               after == TurnsOf(turns', session_id)
           IN /\ (pc = "start") => (session_id \in DOMAIN sessions' /\ after = Append(before, user_turn))
              /\ (pc \in {"router", "sales", "billing", "manager", "format_response"} /\ session_id \in DOMAIN sessions')
                    => /\ after = before
                       /\ sessions'[session_id].last_query = sessions[session_id].last_query
                       /\ sessions'[session_id].last_response = sessions[session_id].last_response
              /\ (pc' = "raised" /\ session_id \in DOMAIN sessions')
                    => /\ Last(after) = user_turn
                       /\ sessions'[session_id].last_query = sessions[session_id].last_query
                       /\ sessions'[session_id].last_response = sessions[session_id].last_response
              /\ (pc = "END" /\ pc' = "returned" /\ session_id \in DOMAIN sessions)
                    => /\ after = Append(before, [session_id |-> session_id, role |-> "assistant", content |-> result'.final_response])
                       /\ Last(before) = user_turn
                       /\ sessions'[session_id].last_query = Some(query)
                       /\ sessions'[session_id].last_response = Some(Take(result'.final_response, LAST_RESPONSE_CHARS))]_vars

\* a run on a session that held one turn has returned: the session holds
\* that turn, then the user turn, then the assistant turn
C37_Witness ==
    /\ pc = "returned"
    /\ session_id = "s1"
    /\ "s1" \in DOMAIN sessions
    /\ Len(TurnsOf(turns, "s1")) = 3
    /\ TurnsOf(turns, "s1")[2] = [session_id |-> "s1", role |-> "user", content |-> query]
    /\ TurnsOf(turns, "s1")[3] = [session_id |-> "s1", role |-> "assistant", content |-> result.final_response]
    /\ sessions["s1"].last_query = Some(query)

\* C38: a run_query without a session id leaves the session store as it is
\* at every step (no session created, no turn appended, no field updated,
\* whatever sessions the store holds and whatever entities the query
\* names), and the session context of the shared state is empty from the
\* initial state to the result.
C38_NoSessionIdTouchesNoStore ==
    [][(session_id = "")
        => /\ sessions' = sessions
           /\ turns' = turns
           /\ state'.session_context = <<>>
           /\ state'.session_id = ""]_vars

\* a run without session id has returned; its query names an account, the
\* store holds a session that knows another account and one turn, untouched
C38_Witness ==
    /\ pc = "returned"
    /\ session_id = ""
    /\ query = Q_ACCT
    /\ sessions = [k \in {"s1"} |-> [NewRow("s1") EXCEPT !.account_id = Some("ACC-789456123")]]
    /\ turns = <<OldTurn(1)>>
    /\ state.session_context = <<>>
    /\ Ran("router")

\* the node a trace entry was written by
NodeOf(entry) ==
    CASE entry.who = "Router" -> "router"
      [] entry.who = "SalesAgent" -> "sales"
      [] entry.who = "BillingAgent" -> "billing"
      [] entry.who = "ManagerAgent" -> "manager"
      [] entry.who = "Formatted final response" -> "format_response"
      [] OTHER -> "unknown"

\* C39: the trace is append-only and mirrors execution.  A step in which a
\* node completes appends exactly one entry to the trace and keeps the
\* entries it held; no other step of the run changes it; so the trace has
\* one entry per node executed, in execution order.  Its first entry is the
\* Router's classification, with the intent the Router stored, and the trace
\* returned by a run that went through Billing ends with the Formatter's
\* entry.
C39_TraceMirrorsExecution ==
    [][/\ (pc # "start") => IF path' # path THEN TraceAppended ELSE state'.trace = state.trace
       /\ Len(state'.trace) = Len(path')
       /\ \A i \in DOMAIN path' : NodeOf(state'.trace[i]) = path'[i]
       /\ (state'.trace # <<>>)
            => state'.trace[1] = [who |-> "Router", what |-> "classified as", intent |-> state'.intent]
       /\ (pc' = "returned" /\ \E i \in DOMAIN path' : path'[i] = "billing")
            => /\ result'.trace = state'.trace
               /\ Last(result'.trace) = [who |-> "Formatted final response"]]_vars

\* a run has returned after Router, Billing, Manager and Formatter ran: its
\* trace holds their four entries in that order
C39_Witness ==
    /\ pc = "returned"
    /\ path = <<"router", "billing", "manager", "format_response">>
    /\ Len(result.trace) = 4
    /\ result.trace[1].who = "Router"
    /\ result.trace[2].who = "BillingAgent"
    /\ result.trace[3].who = "ManagerAgent"
    /\ result.trace[4] = [who |-> "Formatted final response"]
====
